---- MODULE Spec2Model ----
(***************************************************************************)
(* A model of FlumpMovieLayer (src/unnamed/part_001, lines 12-201): the    *)
(* runtime playback cursor over one Flump layer.  The layer resolves a     *)
(* playback frame to an interpolated transform, a cached 2x3 matrix, an    *)
(* opacity, a visibility flag and an active child symbol.  A second        *)
(* specification, StageSpec, models Stage (src/unnamed/part_000, lines     *)
(* 772-1884) and the DOM targets it registers its listeners on.            *)
(*                                                                         *)
(* Numbers.  The code computes with IEEE doubles.  The model computes with *)
(* exact rationals <<n, d>> (d > 0, lowest terms); <<0, 0>> stands for a   *)
(* non-finite double (Infinity or NaN), which every operation propagates.  *)
(* Math.sin and Math.cos are modelled by their Taylor polynomials of       *)
(* degree 2 (sin r ~ r, cos r ~ 1 - r*r/2), which agree with the code's    *)
(* shortcut sin(0) = 0, cos(0) = 1.                                        *)
(***************************************************************************)
EXTENDS Integers, Sequences, FiniteSets, TLC

(***************************************************************************)
(* Bounds of the model.                                                    *)
(***************************************************************************)
\* Largest playback frame the host passes to setFrame (frames are drawn in
\* steps of 1/FrameDen from 0 to MaxFrame).
MaxFrame == 11
\* Frames are multiples of 1/FrameDen, so fractional frames occur.
FrameDen == 2
\* Largest frame cursor a nested movie reaches by ticks.
MaxChildFrame == 3
\* Largest number of calls of a Stage that create listener functions.
MaxClosures == 3
\* Largest page coordinate of a pointer event.
MaxPage == 4
\* Largest number of intervals a Stage sets on its page.
MaxIntervals == 3
\* Largest number of load() calls on a SpriteSheet.
MaxLoads == 2
\* The frames _calculateFrames cuts when no count is given.
DefaultMaxFrames == 100000

(***************************************************************************)
(* Rational arithmetic.                                                    *)
(***************************************************************************)
RECURSIVE GCD(_, _)
GCD(a, b) == IF b = 0 THEN a ELSE GCD(b, a % b)

Abs(n) == IF n < 0 THEN -n ELSE n

NonFinite == <<0, 0>>

IsFinite(r) == r[2] # 0

\* The pairs the arithmetic works on.  It is written as functions of such
\* pairs, so that each operand is evaluated once.
Pair == Int \X Int

\* The rational n/d in lowest terms with a positive denominator.
Norm[n \in Int, d \in Int] ==
    IF d = 0 THEN NonFinite
    ELSE LET g == GCD(Abs(n), Abs(d))
             s == IF d < 0 THEN -1 ELSE 1
         IN  <<(s * n) \div g, (s * d) \div g>>

R(n, d) == Norm[n, d]

Z(n) == <<n, 1>>

\* Sums are taken over the least common denominator and products are
\* reduced crosswise first, which keeps the intermediate integers small.
Sum[p \in Pair, q \in Pair] ==
    IF IsFinite(p) /\ IsFinite(q)
    THEN LET g == GCD(p[2], q[2])
         IN  Norm[p[1] * (q[2] \div g) + q[1] * (p[2] \div g),
                  p[2] * (q[2] \div g)]
    ELSE NonFinite

RAdd(p, q) == Sum[p, q]

Neg[p \in Pair] == IF IsFinite(p) THEN <<-p[1], p[2]>> ELSE NonFinite

RNeg(p) == Neg[p]

RSub(p, q) == Sum[p, Neg[q]]

Product[p \in Pair, q \in Pair] ==
    IF IsFinite(p) /\ IsFinite(q)
    THEN LET g1 == GCD(Abs(p[1]), q[2])
             g2 == GCD(Abs(q[1]), p[2])
         IN  Norm[(p[1] \div g1) * (q[1] \div g2),
                  (p[2] \div g2) * (q[2] \div g1)]
    ELSE NonFinite

RMul(p, q) == Product[p, q]

\* A division by zero gives a non-finite double, never an exception.
Quotient[p \in Pair, q \in Pair] ==
    IF IsFinite(p) /\ IsFinite(q) /\ q[1] # 0
    THEN Product[p, IF q[1] < 0 THEN <<-q[2], -q[1]>> ELSE <<q[2], q[1]>>]
    ELSE NonFinite

RDiv(p, q) == Quotient[p, q]

Less[p \in Pair, q \in Pair] ==
    IsFinite(p) /\ IsFinite(q) /\ p[1] * q[2] < q[1] * p[2]

RLt(p, q) == Less[p, q]

\* frame | 0: truncation towards zero.  The 32-bit wrap of ToInt32 is not
\* reached: every frame of the model is below 2^31.
Trunc[r \in Pair] ==
    IF r[1] >= 0 THEN r[1] \div r[2] ELSE -((-r[1]) \div r[2])

ToInt32(r) == Trunc[r]

\* Math.sin and Math.cos, as Taylor polynomials.
Sin(r) == r

Cosine[r \in Pair] == RSub(Z(1), RDiv(RMul(r, r), Z(2)))

Cos(r) == Cosine[r]

(***************************************************************************)
(* DisplayType, keyframe refs, the library.                                *)
(***************************************************************************)
UNKNOWN == "UNKNOWN"
DISPLAYOBJECT == "DISPLAYOBJECT"
TEXTURE == "TEXTURE"

\* keyframe.ref is a symbol name, null or the sentinel -1.
NullRef == "null"
MinusOneRef == "-1"
\* A field that was never assigned.
Undefined == "undefined"
NoLabel == "null"

\* The symbols of the loaded library and what createSymbol makes of each.
LibrarySymbols == {"ball", "box", "tex"}

LibraryType(ref) == IF ref = "tex" THEN TEXTURE ELSE DISPLAYOBJECT

\* flumpLibrary.createSymbol(name, false): a new FlumpMovie or FlumpTexture.
createSymbol(ref) == [ref |-> ref, type |-> LibraryType(ref)]

(***************************************************************************)
(* Layer data: the inputs of the model.                                    *)
(***************************************************************************)
BaseKeyframe ==
    [index |-> 0, duration |-> 1, tweened |-> FALSE, ease |-> Z(0),
     x |-> Z(0), y |-> Z(0), scaleX |-> Z(1), scaleY |-> Z(1),
     skewX |-> Z(0), skewY |-> Z(0), pivotX |-> Z(0), pivotY |-> Z(0),
     alpha |-> Z(1), visible |-> TRUE, label |-> NoLabel, ref |-> NullRef]

KF(over) == over @@ BaseKeyframe

\* A layer without keyframes.
LayerEmpty == <<>>

\* {index 0, x 0, duration 10, ease 0, tweened} then {index 10, x 100}.
LayerLinear ==
    << KF([index |-> 0, duration |-> 10, tweened |-> TRUE, x |-> Z(0),
           alpha |-> Z(0), ref |-> "ball"]),
       KF([index |-> 10, duration |-> 1, x |-> Z(100), ref |-> "ball"]) >>

\* ref "ball" at index 0 and ref null at index 5.
LayerRef(e) ==
    << KF([index |-> 0, duration |-> 5, tweened |-> TRUE, ease |-> e,
           y |-> Z(0), alpha |-> Z(1), label |-> "in", ref |-> "ball"]),
       KF([index |-> 5, duration |-> 0, y |-> Z(10), alpha |-> R(1, 2),
           ref |-> NullRef]) >>

\* Three tweened keyframes with scale, skew, pivot and alpha; the symbol
\* changes from a movie to a texture and back.
LayerEased(e) ==
    << KF([index |-> 0, duration |-> 2, tweened |-> TRUE, ease |-> e,
           x |-> Z(0), scaleX |-> Z(1), skewX |-> Z(0), pivotX |-> Z(1),
           alpha |-> Z(1), ref |-> "ball"]),
       KF([index |-> 2, duration |-> 2, tweened |-> TRUE, ease |-> RNeg(e),
           x |-> Z(4), y |-> Z(2), scaleX |-> Z(2), scaleY |-> Z(1),
           skewX |-> Z(1), skewY |-> Z(0), pivotX |-> Z(3), pivotY |-> Z(2),
           alpha |-> Z(0), visible |-> FALSE, ref |-> "tex"]),
       KF([index |-> 4, duration |-> 2, tweened |-> TRUE, ease |-> e,
           x |-> Z(4), y |-> Z(-2), scaleX |-> Z(2), scaleY |-> Z(3),
           skewX |-> Z(1), skewY |-> Z(1), pivotX |-> Z(5), pivotY |-> Z(7),
           alpha |-> R(1, 2), label |-> "out", ref |-> "ball"]) >>

\* Untweened keyframes whose successors differ, the -1 sentinel, two movies.
LayerMixed(e) ==
    << KF([index |-> 0, duration |-> 3, tweened |-> FALSE, ease |-> e,
           x |-> Z(1), y |-> Z(1), alpha |-> R(1, 2), label |-> "a",
           ref |-> "box"]),
       KF([index |-> 3, duration |-> 2, tweened |-> TRUE, ease |-> e,
           x |-> Z(7), y |-> Z(-3), scaleX |-> Z(3), alpha |-> Z(1),
           ref |-> MinusOneRef]),
       KF([index |-> 5, duration |-> 2, tweened |-> TRUE, ease |-> e,
           x |-> Z(-5), y |-> Z(3), alpha |-> Z(0), label |-> "b",
           ref |-> "ball"]),
       KF([index |-> 7, duration |-> 1, tweened |-> FALSE,
           x |-> Z(9), pivotY |-> Z(4), ref |-> "box"]) >>

\* A keyframe of duration 0 followed by a gap before the next keyframe.
LayerGap(e) ==
    << KF([index |-> 0, duration |-> 0, tweened |-> TRUE, ease |-> e,
           x |-> Z(0), ref |-> "box"]),
       KF([index |-> 3, duration |-> 2, x |-> Z(6), alpha |-> R(1, 2),
           ref |-> "tex"]) >>

\* Keyframes that differ in their pivot alone, scaled and skewed.
LayerPivot ==
    << KF([index |-> 0, duration |-> 2, x |-> Z(3), y |-> Z(2),
           scaleX |-> Z(2), scaleY |-> Z(3), skewX |-> Z(1),
           skewY |-> R(1, 2), ref |-> "box"]),
       KF([index |-> 2, duration |-> 2, x |-> Z(3), y |-> Z(2),
           scaleX |-> Z(2), scaleY |-> Z(3), skewX |-> Z(1),
           skewY |-> R(1, 2), pivotX |-> Z(2), pivotY |-> Z(5),
           ref |-> "box"]),
       KF([index |-> 4, duration |-> 2, tweened |-> TRUE, x |-> Z(3),
           y |-> Z(2), scaleX |-> Z(2), scaleY |-> Z(3), skewX |-> Z(1),
           skewY |-> R(1, 2), pivotX |-> Z(-1), pivotY |-> Z(3),
           ref |-> "box"]) >>

\* The layers a FlumpMovieLayer is constructed over, by name.
LayerDatas ==
    [n \in {"empty", "linear", "ref", "mixed", "gap", "pivot", "eased-1",
            "eased-1/2", "eased0", "eased1/2", "eased1"} |->
        CASE n = "empty" -> LayerEmpty
          [] n = "linear" -> LayerLinear
          [] n = "ref" -> LayerRef(R(1, 2))
          [] n = "mixed" -> LayerMixed(R(-1, 2))
          [] n = "gap" -> LayerGap(Z(1))
          [] n = "pivot" -> LayerPivot
          [] n = "eased-1" -> LayerEased(Z(-1))
          [] n = "eased-1/2" -> LayerEased(R(-1, 2))
          [] n = "eased0" -> LayerEased(Z(0))
          [] n = "eased1/2" -> LayerEased(R(1, 2))
          [] n = "eased1" -> LayerEased(Z(1))]

\* The frames a host passes to setFrame: 0, 1/FrameDen, ... up to MaxFrame.
Frames == {R(k, FrameDen) : k \in 0 .. (MaxFrame * FrameDen)}

\* The deltas a host passes to onTick.
Deltas == {1, 2}

(***************************************************************************)
(* FlumpLayerData's queries.                                               *)
(***************************************************************************)
\* The position (1-based) of the keyframe that holds at frame: the last one
\* whose index is not after frame, the first one before that; 0 for none,
\* which happens only for a layer without keyframes.
getKeyframeForFrame(datas, frame) ==
    IF Len(datas) = 0 THEN 0
    ELSE LET at == {i \in 1 .. Len(datas) : datas[i].index <= frame}
         IN  IF at = {} THEN 1
             ELSE CHOOSE i \in at : \A j \in at : j <= i

\* The position of the keyframe after position i; 0 when i is the last.
getKeyframeAfter(datas, i) == IF i < Len(datas) THEN i + 1 ELSE 0

(***************************************************************************)
(* FlumpMovieLayer.setFrame, step by step.                                 *)
(***************************************************************************)
\* Mutant of TweenGuard: the keyframe's tweened flag is not consulted.
TweenGuard_ignoresTweened(keyframe, frame) ==
    keyframe.index # ToInt32(frame)

\* Mutant of TweenGuard: the test against the keyframe's own index is lost.
TweenGuard_noIndexTest(keyframe, frame) == keyframe.tweened

\* The guard of the tween.
TweenGuard(keyframe, frame) ==
    keyframe.index # ToInt32(frame) /\ keyframe.tweened

\* Mutant of Eased: a negative ease is not negated before the blend.
Eased_noNegate(interped, ease) ==
    IF ease # Z(0)
    THEN LET t == IF RLt(ease, Z(0))
                  THEN RSub(Z(1), RMul(RSub(Z(1), interped), RSub(Z(1), interped)))
                  ELSE RMul(interped, interped)
         IN  RAdd(RMul(ease, t), RMul(RSub(Z(1), ease), interped))
    ELSE interped

\* The easing of the interpolation factor.
Eased(interped, ease) ==
    IF ease # Z(0)
    THEN IF RLt(ease, Z(0))
         THEN LET inv == RSub(Z(1), interped)
                  t == RSub(Z(1), RMul(inv, inv))
                  ease2 == RSub(Z(0), ease)
              IN  RAdd(RMul(ease2, t), RMul(RSub(Z(1), ease2), interped))
         ELSE LET t == RMul(interped, interped)
              IN  RAdd(RMul(ease, t), RMul(RSub(Z(1), ease), interped))
    ELSE interped

\* Mutant of Interped: the span is taken one frame short.
Interped_shortSpan(keyframe, frame) ==
    Eased(RDiv(RSub(frame, Z(keyframe.index)), Z(keyframe.duration - 1)),
          keyframe.ease)

\* The interpolation factor of frame within keyframe's span.
Interped(keyframe, frame) ==
    Eased(RDiv(RSub(frame, Z(keyframe.index)), Z(keyframe.duration)),
          keyframe.ease)

\* Mutant of Lerp: the difference is taken from the wrong side.
Lerp_swapped(v, nv, interped) == RAdd(v, RMul(RSub(v, nv), interped))

\* v + (nextKeyframe.v - v) * interped.
Lerp(v, nv, interped) == RAdd(v, RMul(RSub(nv, v), interped))

\* The locals of setFrame when no keyframe was found.
NoLocals ==
    [keyframe |-> 0, nextKeyframe |-> 0, tween |-> FALSE, interped |-> Z(0),
     x |-> Z(0), y |-> Z(0), scaleX |-> Z(0), scaleY |-> Z(0),
     skewX |-> Z(0), skewY |-> Z(0), pivotX |-> Z(0), pivotY |-> Z(0),
     alpha |-> Z(0)]

\* Mutant of Locals: the pivot is interpolated like the position.
Locals_pivotTweened(datas, frame) ==
    LET i == getKeyframeForFrame(datas, ToInt32(frame))
    IN  IF i = 0 THEN NoLocals
        ELSE
        LET keyframe == datas[i]
            n == getKeyframeAfter(datas, i)
            tween == TweenGuard(keyframe, frame) /\ n # 0
            interped == IF tween THEN Interped(keyframe, frame) ELSE Z(0)
            V(f) == IF tween THEN Lerp(keyframe[f], datas[n][f], interped)
                    ELSE keyframe[f]
        IN  [keyframe |-> i, nextKeyframe |-> n, tween |-> tween,
             interped |-> interped,
             x |-> V("x"), y |-> V("y"),
             scaleX |-> V("scaleX"), scaleY |-> V("scaleY"),
             skewX |-> V("skewX"), skewY |-> V("skewY"),
             pivotX |-> V("pivotX"), pivotY |-> V("pivotY"),
             alpha |-> V("alpha")]

\* The locals of setFrame(frame) before the matrix is composed: keyframe
\* and nextKeyframe are positions in datas, tween tells whether the
\* interpolation ran and interped is its factor.
Locals(datas, frame) ==
    LET i == getKeyframeForFrame(datas, ToInt32(frame))
    IN  IF i = 0 THEN NoLocals
        ELSE
        LET keyframe == datas[i]
            n == getKeyframeAfter(datas, i)
            tween == TweenGuard(keyframe, frame) /\ n # 0
            interped == IF tween THEN Interped(keyframe, frame) ELSE Z(0)
            V(f) == IF tween THEN Lerp(keyframe[f], datas[n][f], interped)
                    ELSE keyframe[f]
        IN  [keyframe |-> i, nextKeyframe |-> n, tween |-> tween,
             interped |-> interped,
             x |-> V("x"), y |-> V("y"),
             scaleX |-> V("scaleX"), scaleY |-> V("scaleY"),
             skewX |-> V("skewX"), skewY |-> V("skewY"),
             pivotX |-> keyframe.pivotX, pivotY |-> keyframe.pivotY,
             alpha |-> V("alpha")]

\* Mutant of Mtx: the pivot is subtracted without being transformed.
Mtx_pivotUntransformed(l) ==
    LET sinX == IF l.skewX # Z(0) THEN Sin(l.skewX) ELSE Z(0)
        cosX == IF l.skewX # Z(0) THEN Cos(l.skewX) ELSE Z(1)
        sinY == IF l.skewY # Z(0) THEN Sin(l.skewY) ELSE Z(0)
        cosY == IF l.skewY # Z(0) THEN Cos(l.skewY) ELSE Z(1)
    IN  [a |-> RMul(l.scaleX, cosY), b |-> RMul(l.scaleX, sinY),
         c |-> RMul(RNeg(l.scaleY), sinX), d |-> RMul(l.scaleY, cosX),
         tx |-> RSub(l.x, l.pivotX), ty |-> RSub(l.y, l.pivotY)]

\* The matrix composed from the locals.
Mtx(l) ==
    LET sinX == IF l.skewX # Z(0) THEN Sin(l.skewX) ELSE Z(0)
        cosX == IF l.skewX # Z(0) THEN Cos(l.skewX) ELSE Z(1)
        sinY == IF l.skewY # Z(0) THEN Sin(l.skewY) ELSE Z(0)
        cosY == IF l.skewY # Z(0) THEN Cos(l.skewY) ELSE Z(1)
        a == RMul(l.scaleX, cosY)
        b == RMul(l.scaleX, sinY)
        c == RMul(RNeg(l.scaleY), sinX)
        d == RMul(l.scaleY, cosX)
    IN  [a |-> a, b |-> b, c |-> c, d |-> d,
         tx |-> RSub(l.x, RAdd(RMul(l.pivotX, a), RMul(l.pivotY, c))),
         ty |-> RSub(l.y, RAdd(RMul(l.pivotX, b), RMul(l.pivotY, d)))]

\* keyframe.ref names a symbol.
HasRef(keyframe) == keyframe.ref # MinusOneRef /\ keyframe.ref # NullRef

\* Mutant of SwitchGuard: the symbol is switched in on every frame.
SwitchGuard_always(keyframeRef, keyframe) == TRUE

\* The keyframe's symbol replaces the active one.
SwitchGuard(keyframeRef, keyframe) == keyframeRef # keyframe.ref

(***************************************************************************)
(* The state of one FlumpMovieLayer and of the children it created.        *)
(***************************************************************************)
VARIABLES
    layer,            \* which of LayerDatas the layer was constructed over
    constructed,      \* the constructor has run
    _symbols,         \* ref -> the child created for it
    labels,           \* the owning movie's label map: label -> [index, duration]
    _symbolType,      \* kind of the active child
    _symbolMovie,     \* ref of the last nested movie made active
    _symbolTexture,   \* ref of the last texture made active
    _keyframeRef,     \* the active ref
    _storedMtx,       \* the cached matrix
    alpha,
    visible,
    childFrame,       \* ref of a nested movie -> its own frame cursor
    locals,           \* the locals of the last setFrame
    calls,            \* the calls the last operation made on collaborators
    ret,              \* what the last draw returned
    lastOp,           \* the last operation and its argument
    repeated          \* the last operation repeated the one before it

layerVars ==
    <<layer, constructed, _symbols, labels, _symbolType, _symbolMovie,
      _symbolTexture, _keyframeRef, _storedMtx, alpha, visible, childFrame,
      locals, calls, ret, lastOp, repeated>>

\* The state of one Stage and of the page it lives in.
VARIABLES
    hasWindowEvents,          \* window has addEventListener
    stageBuilt,               \* the constructor of Stage has run
    canvas,                   \* Stage.canvas
    triggerResizeOnWindowResize,
    _eventListeners,          \* the entries [name, window, fn]; empty for null
    _onResizeEventListener,   \* the resize listener function, or null
    listeners,                \* the listeners registered on the DOM targets
    closures,                 \* calls so far that created listener functions
    stageOp,                  \* the last operation on the stage
    stageRepeated,            \* it repeated the operation before it
    tickOnUpdate,             \* Stage.tickOnUpdate
    tickEnabled,              \* DisplayObject.tickEnabled
    autoClear,                \* Stage.autoClear
    drawRect,                 \* Stage.drawRect is set
    effects,                  \* what the last operation emitted, ticked
                              \* and drew, in order
    mouseMoveOutside,         \* Stage.mouseMoveOutside
    _pointerData,             \* pointer id -> [x, y, inBounds, target]
    _primaryPointerID,        \* the id of the primary pointer, or null
    mouseX,
    mouseY,
    mouseInBounds,
    domEvent,                 \* the last pointer event handled
    dispatched,               \* the mouse events it dispatched, in order
    _mouseOverIntervalID,     \* the id of the stage's polling interval
    intervals,                \* the page's active intervals: [id, period]
    timers,                   \* how many intervals the page has set so far
    mouseOverCall             \* the arguments of the last enableMouseOver

\* The pointers of the stage and the events dispatched for them.
pointerVars ==
    <<mouseMoveOutside, _pointerData, _primaryPointerID, mouseX, mouseY,
      mouseInBounds, domEvent, dispatched>>

\* The mouse-over polling of the stage.
overVars == <<_mouseOverIntervalID, intervals, timers, mouseOverCall>>

\* The fields update and tick read, and what they emit and draw.
drawVars == <<tickOnUpdate, tickEnabled, autoClear, drawRect, effects>>

stageVars ==
    <<hasWindowEvents, stageBuilt, canvas, triggerResizeOnWindowResize,
      _eventListeners, _onResizeEventListener, listeners, closures, stageOp,
      stageRepeated, drawVars, pointerVars, overVars>>

\* A SpriteSheet, the data it is constructed from and its images.
VARIABLES
    sheetData,                \* the data given to the constructor
    sheetBuilt,               \* the constructor has run
    sheetError,               \* the error initialize threw, or none
    loadCount,
    complete,
    onload,                   \* the images whose onload has yet to fire
    completeEvents,           \* the "complete" events dispatched so far
    _animations,              \* the names of the animations, in order
    _data,                    \* animation name -> [name, frames, next, speed]
    sheetOp                   \* the last operation on the sheet

\* What load() and the frames of a SpriteSheet need beyond that.
VARIABLES
    dataOrUrl,                \* the constructor was given data, a url or nothing
    url,                      \* this.url is set
    animationsArray,          \* this._animations is an array, not null
    _hasLoaded,
    _frames,                  \* the frame list, or null
    _numFrames,
    calculated,               \* how often a frame list was computed
    imageSizes,               \* width and height of each image, once loaded
    promises,                 \* the promises load() returned, in order
    loadResult                \* how the last load() ended

loadVars ==
    <<dataOrUrl, url, animationsArray, _hasLoaded, _frames, _numFrames,
      calculated, imageSizes, promises, loadResult>>

sheetVars ==
    <<sheetData, sheetBuilt, sheetError, loadCount, complete, onload,
      completeEvents, _animations, _data, sheetOp, loadVars>>

vars == <<layerVars, stageVars, sheetVars>>

\* The layer's keyframes (immutable).
flumpLayerData == LayerDatas[layer]

\* The layer's own fields and its children's cursors, as one record.
Fields ==
    [_symbolType |-> _symbolType, _symbolMovie |-> _symbolMovie,
     _symbolTexture |-> _symbolTexture, _keyframeRef |-> _keyframeRef,
     _storedMtx |-> _storedMtx, alpha |-> alpha, visible |-> visible,
     _symbols |-> _symbols, childFrame |-> childFrame]

Call(fn, ref, arg) == [fn |-> fn, ref |-> ref, arg |-> arg]

Op(op, arg) == [op |-> op, arg |-> arg]

\* FlumpMovie.reset(): the nested movie returns to frame 0.
MovieReset(cf, ref) == [cf EXCEPT ![ref] = 0]

\* FlumpMovie.onTick(delta): the nested movie advances its own cursor.
MovieTick(cf, ref, delta) == [cf EXCEPT ![ref] = @ + delta]

\* Mutant of DrawCalls: the last nested movie is drawn while any child is
\* active.
DrawCalls_lastMovie(symbolType, symbolMovie, symbolTexture) ==
    IF symbolType = UNKNOWN THEN <<>>
    ELSE IF symbolMovie # Undefined THEN <<Call("draw", symbolMovie, 0)>>
    ELSE <<Call("draw", symbolTexture, 0)>>

\* Mutant of DrawCalls: the nested movie is drawn whatever the kind.
DrawCalls_noKindTest(symbolType, symbolMovie, symbolTexture) ==
    IF symbolType = TEXTURE THEN <<Call("draw", symbolTexture, 0)>>
    ELSE <<Call("draw", symbolMovie, 0)>>

\* The calls draw makes on the layer's children.
DrawCalls(symbolType, symbolMovie, symbolTexture) ==
    IF symbolType = DISPLAYOBJECT THEN <<Call("draw", symbolMovie, 0)>>
    ELSE IF symbolType = TEXTURE THEN <<Call("draw", symbolTexture, 0)>>
    ELSE <<>>

\* Mutant of TickCalls: the last nested movie is ticked whatever is active.
TickCalls_lastMovie(symbolType, symbolMovie, delta) ==
    IF symbolMovie # Undefined THEN <<Call("onTick", symbolMovie, delta)>>
    ELSE <<>>

\* The calls onTick(delta) makes on the layer's children.
TickCalls(symbolType, symbolMovie, delta) ==
    IF symbolType = DISPLAYOBJECT THEN <<Call("onTick", symbolMovie, delta)>>
    ELSE <<>>

\* The children's cursors after the calls cs were made on them.
RECURSIVE Deliver(_, _)
Deliver(cf, cs) ==
    IF cs = <<>> THEN cf
    ELSE LET c == Head(cs)
         IN  Deliver(IF c.fn = "onTick" THEN MovieTick(cf, c.ref, c.arg)
                     ELSE IF c.fn = "reset" /\ c.ref \in DOMAIN cf
                     THEN MovieReset(cf, c.ref)
                     ELSE cf,
                     Tail(cs))

\* Mutant of DrawReturn: true only when a child was drawn.
DrawReturn_whetherDrawn(symbolType) == symbolType \in {DISPLAYOBJECT, TEXTURE}

\* The return value of draw.
DrawReturn(symbolType) == TRUE

\* Mutant of ClearSymbol: the active ref is cleared, the kind is kept.
ClearSymbol_keepsKind(f) == [f EXCEPT !._keyframeRef = NullRef]

\* The keyframe names no symbol: the layer has no active child.
ClearSymbol(f) == [f EXCEPT !._keyframeRef = NullRef, !._symbolType = UNKNOWN]

\* Mutant of Drawn: inside a tween the next keyframe's visibility is taken.
Drawn_visibleOfNext(cur, datas, l) ==
    [cur EXCEPT !._storedMtx = Mtx(l), !.alpha = l.alpha,
                !.visible = IF l.tween THEN datas[l.nextKeyframe].visible
                            ELSE datas[l.keyframe].visible]

\* The matrix, the opacity and the visibility setFrame stores.
Drawn(cur, datas, l) ==
    [cur EXCEPT !._storedMtx = Mtx(l), !.alpha = l.alpha,
                !.visible = datas[l.keyframe].visible]

\* The rest of setFrame once its locals l are computed: the matrix, alpha
\* and visible are stored and the keyframe's symbol is resolved.
Resolve(cur, datas, l) ==
        IF l.keyframe = 0
        THEN [fields |-> [cur EXCEPT !._symbolType = UNKNOWN],
              locals |-> l, calls |-> <<>>]
        ELSE
        LET keyframe == datas[l.keyframe]
            drawn == Drawn(cur, datas, l)
        IN  IF HasRef(keyframe)
            THEN IF SwitchGuard(cur._keyframeRef, keyframe)
                 THEN LET symbol == cur._symbols[keyframe.ref]
                          sw == [drawn EXCEPT !._keyframeRef = keyframe.ref,
                                              !._symbolType = symbol.type]
                      IN  IF symbol.type = DISPLAYOBJECT
                          THEN [fields |->
                                   [sw EXCEPT !._symbolMovie = symbol.ref,
                                              !.childFrame =
                                                  MovieReset(@, symbol.ref)],
                                locals |-> l,
                                calls |-> <<Call("reset", symbol.ref, 0)>>]
                          ELSE IF symbol.type = TEXTURE
                          THEN [fields |->
                                   [sw EXCEPT !._symbolTexture = symbol.ref],
                                locals |-> l,
                                calls |-> <<Call("reset", symbol.ref, 0)>>]
                          ELSE [fields |-> sw, locals |-> l, calls |-> <<>>]
                 ELSE [fields |-> drawn, locals |-> l, calls |-> <<>>]
            ELSE [fields |-> ClearSymbol(drawn), locals |-> l, calls |-> <<>>]

\* The fields after setFrame(frame) run on the fields cur, with the locals
\* it computed and the calls it made on children.
SetFrame(cur, frame) ==
    CHOOSE res \in {Resolve(cur, flumpLayerData, l) :
                       l \in {Locals(flumpLayerData, frame)}} : TRUE

\* The layer's fields become those of the record f.
Assign(f) ==
    /\ _symbolType' = f._symbolType
    /\ _symbolMovie' = f._symbolMovie
    /\ _symbolTexture' = f._symbolTexture
    /\ _keyframeRef' = f._keyframeRef
    /\ _storedMtx' = f._storedMtx
    /\ alpha' = f.alpha
    /\ visible' = f.visible
    /\ _symbols' = f._symbols
    /\ childFrame' = f.childFrame

(***************************************************************************)
(* Initial state: the field initialisers, before the constructor body.     *)
(***************************************************************************)
LayerInit ==
    /\ layer \in DOMAIN LayerDatas
    /\ constructed = FALSE
    /\ _symbols = [r \in {} |-> createSymbol(r)]
    /\ labels = [n \in {} |-> [index |-> 0, duration |-> 0]]
    /\ _symbolType = UNKNOWN
    /\ _symbolMovie = Undefined
    /\ _symbolTexture = Undefined
    /\ _keyframeRef = Undefined
    /\ _storedMtx = [a |-> Z(1), b |-> Z(0), c |-> Z(0), d |-> Z(1),
                     tx |-> Z(0), ty |-> Z(0)]
    /\ alpha = Z(1)
    /\ visible = TRUE
    /\ childFrame = [r \in {} |-> 0]
    /\ locals = NoLocals
    /\ calls = <<>>
    /\ ret = FALSE
    /\ lastOp = Op("new", Z(0))
    /\ repeated = FALSE

\* The fields of a SpriteSheet, as initialised.
NoError == "none"

\* data.frames: null, an object {width, height, ...} or an array of frames,
\* of which only the length matters here.
\* An object {width, height, count} has length 0 here; count may be omitted.
SheetFrames(form, length) ==
    [form |-> form, length |-> length, width |-> 0, height |-> 0,
     countGiven |-> FALSE, count |-> 0]

GridFrames(width, height, countGiven, count) ==
    [form |-> "object", length |-> 0, width |-> width, height |-> height,
     countGiven |-> countGiven, count |-> count]

\* this._frames: null, or the list of frames, each the image it is cut from
\* and the origin of its rectangle.
NoFrames == [defined |-> FALSE, list |-> <<>>]
FrameList(list) == [defined |-> TRUE, list |-> list]
Frame(image, x, y) == [image |-> image, x |-> x, y |-> y]

\* this._numFrames: a number, or undefined when data.frames has no count.
NumFrames(defined, value) == [defined |-> defined, value |-> value]

\* A promise load() returned: the loadCount it started from, whether its
\* interval still polls, how often resolve(this) was called, and the
\* progress last reported to onProgress, if any was.
Promise(total, polling, resolved, onProgress, reported, progress) ==
    [total |-> total, polling |-> polling, resolved |-> resolved,
     onProgress |-> onProgress, reported |-> reported, progress |-> progress]

NoSheetData ==
    [images |-> <<>>, frames |-> SheetFrames("null", 0), animations |-> <<>>]

SheetFields ==
    [loadCount |-> 0, complete |-> TRUE, onload |-> {},
     _animations |-> <<>>, _data |-> <<>>, error |-> NoError,
     animationsArray |-> FALSE, _frames |-> NoFrames,
     _numFrames |-> NumFrames(TRUE, 0), calculated |-> 0]

\* The fields load() and the frames use, as initialised.
LoadIdle ==
    /\ dataOrUrl = "data"
    /\ url = FALSE
    /\ animationsArray = FALSE
    /\ _hasLoaded = FALSE
    /\ _frames = NoFrames
    /\ _numFrames = NumFrames(TRUE, 0)
    /\ calculated = 0
    /\ imageSizes = <<>>
    /\ promises = <<>>
    /\ loadResult = "none"

\* No SpriteSheet is involved.
SheetIdle ==
    /\ sheetData = NoSheetData
    /\ sheetBuilt = FALSE
    /\ sheetError = NoError
    /\ loadCount = 0
    /\ complete = TRUE
    /\ onload = {}
    /\ completeEvents = 0
    /\ _animations = <<>>
    /\ _data = <<>>
    /\ sheetOp = "none"
    /\ LoadIdle

\* No Stage: the field initialisers of Stage, an empty page.
NoCanvas == "null"

NoFunction == [handler |-> "null", made |-> 0]

StageOp(op, arg) == [op |-> op, arg |-> arg]

\* Pointer ids: the mouse is -1, touches count from 0; null is no pointer.
MousePointer == "-1"
TouchPointer == "0"
NoPointer == "null"

\* A pointer event of the page: which handler took it, for which pointer,
\* where on the page.
DOMEvent(handler, id, pageX, pageY) ==
    [handler |-> handler, id |-> id, pageX |-> pageX, pageY |-> pageY]

NoDOMEvent == DOMEvent("none", NoPointer, 0, 0)

\* No interval: _mouseOverIntervalID is null; the ids that setInterval
\* returns count from 1.
NoInterval == 0

\* enableMouseOver(frequency), or enableMouseOver() when none is given.
MouseOverCall(given, frequency) == [given |-> given, frequency |-> frequency]

StageIdle ==
    /\ stageBuilt = FALSE
    /\ canvas = NoCanvas
    /\ triggerResizeOnWindowResize = FALSE
    /\ _eventListeners = <<>>
    /\ _onResizeEventListener = NoFunction
    /\ listeners = {}
    /\ closures = 0
    /\ stageOp = StageOp("none", FALSE)
    /\ stageRepeated = FALSE
    /\ tickOnUpdate = TRUE
    /\ tickEnabled = TRUE
    /\ autoClear = TRUE
    /\ drawRect = FALSE
    /\ effects = <<>>
    /\ mouseMoveOutside = FALSE
    /\ _pointerData = <<>>
    /\ _primaryPointerID = NoPointer
    /\ mouseX = Z(0)
    /\ mouseY = Z(0)
    /\ mouseInBounds = FALSE
    /\ domEvent = NoDOMEvent
    /\ dispatched = <<>>
    /\ _mouseOverIntervalID = NoInterval
    /\ intervals = {}
    /\ timers = 0
    /\ mouseOverCall = MouseOverCall(FALSE, Z(0))

Init ==
    /\ LayerInit
    /\ StageIdle
    /\ SheetIdle
    /\ hasWindowEvents = TRUE

(***************************************************************************)
(* The operations.                                                         *)
(***************************************************************************)
\* Mutant of CreatedRefs: a child is created for every keyframe that names
\* a symbol, whether or not an earlier keyframe named it.
RECURSIVE CreatedRefs_perKeyframe(_, _)
CreatedRefs_perKeyframe(datas, n) ==
    IF n = 0 THEN <<>>
    ELSE IF HasRef(datas[n])
    THEN Append(CreatedRefs_perKeyframe(datas, n - 1), datas[n].ref)
    ELSE CreatedRefs_perKeyframe(datas, n - 1)

\* The refs of the keyframes that name a symbol, in keyframe order, each once.
RECURSIVE CreatedRefs(_, _)
CreatedRefs(datas, n) ==
    IF n = 0 THEN <<>>
    ELSE LET before == CreatedRefs(datas, n - 1)
             keyframe == datas[n]
         IN  IF HasRef(keyframe)
                /\ ~(\E k \in 1 .. Len(before) : before[k] = keyframe.ref)
             THEN Append(before, keyframe.ref)
             ELSE before

\* The labels the constructor registers: a later keyframe with the same
\* label overwrites an earlier one.
LabelsOf(datas) ==
    LET named == {i \in 1 .. Len(datas) : datas[i].label # NoLabel}
        last(n) == CHOOSE i \in named :
                       /\ datas[i].label = n
                       /\ \A j \in named : datas[j].label = n => j <= i
    IN  [n \in {datas[i].label : i \in named} |->
            [index |-> datas[last(n)].index,
             duration |-> datas[last(n)].duration]]

\* new FlumpMovieLayer(flumpMove, flumpLayerData)
Construct ==
    /\ ~constructed
    /\ LET datas == flumpLayerData
           refs == CreatedRefs(datas, Len(datas))
           made == {refs[k] : k \in 1 .. Len(refs)}
           cur == [Fields EXCEPT
                      !._symbols = [r \in made |-> createSymbol(r)],
                      !.childFrame =
                          [r \in {m \in made : LibraryType(m) = DISPLAYOBJECT}
                              |-> 0]]
       IN  \E res \in {SetFrame(cur, Z(0))} :
               /\ labels' = LabelsOf(datas)
               /\ Assign(res.fields)
               /\ locals' = res.locals
               /\ calls' = [k \in 1 .. Len(refs) |->
                               Call("createSymbol", refs[k], 0)] \o res.calls
    /\ constructed' = TRUE
    /\ lastOp' = Op("new FlumpMovieLayer", Z(0))
    /\ repeated' = (lastOp = Op("new FlumpMovieLayer", Z(0)))
    /\ UNCHANGED <<layer, ret>>
    /\ UNCHANGED stageVars
    /\ UNCHANGED sheetVars

\* setFrame(frame)
DoSetFrame(frame) ==
    /\ constructed
    /\ \E res \in {SetFrame(Fields, frame)} :
           /\ Assign(res.fields)
           /\ locals' = res.locals
           /\ calls' = res.calls
    /\ lastOp' = Op("setFrame", frame)
    /\ repeated' = (lastOp = Op("setFrame", frame))
    /\ UNCHANGED <<layer, constructed, labels, ret>>
    /\ UNCHANGED stageVars
    /\ UNCHANGED sheetVars

\* onTick(delta)
OnTick(delta) ==
    /\ constructed
    /\ \E cs \in {TickCalls(_symbolType, _symbolMovie, delta)} :
           /\ \A k \in 1 .. Len(cs) :
                  childFrame[cs[k].ref] + delta <= MaxChildFrame
           /\ childFrame' = Deliver(childFrame, cs)
           /\ calls' = cs
    /\ lastOp' = Op("onTick", Z(delta))
    /\ repeated' = (lastOp = Op("onTick", Z(delta)))
    /\ UNCHANGED <<layer, constructed, _symbols, labels, _symbolType,
                   _symbolMovie, _symbolTexture, _keyframeRef, _storedMtx,
                   alpha, visible, locals, ret>>
    /\ UNCHANGED stageVars
    /\ UNCHANGED sheetVars

\* Mutant of Reset: the layer forgets its active child.
Reset_clearsKind ==
    /\ constructed
    /\ IF _symbolType = DISPLAYOBJECT
       THEN /\ childFrame' = MovieReset(childFrame, _symbolMovie)
            /\ calls' = <<Call("reset", _symbolMovie, 0)>>
       ELSE /\ calls' = <<>>
            /\ UNCHANGED childFrame
    /\ _symbolType' = UNKNOWN
    /\ lastOp' = Op("reset", Z(0))
    /\ repeated' = (lastOp = Op("reset", Z(0)))
    /\ UNCHANGED <<layer, constructed, _symbols, labels,
                   _symbolMovie, _symbolTexture, _keyframeRef, _storedMtx,
                   alpha, visible, locals, ret>>
    /\ UNCHANGED stageVars
    /\ UNCHANGED sheetVars

\* reset()
Reset ==
    /\ constructed
    /\ IF _symbolType = DISPLAYOBJECT
       THEN /\ childFrame' = MovieReset(childFrame, _symbolMovie)
            /\ calls' = <<Call("reset", _symbolMovie, 0)>>
       ELSE /\ calls' = <<>>
            /\ UNCHANGED childFrame
    /\ lastOp' = Op("reset", Z(0))
    /\ repeated' = (lastOp = Op("reset", Z(0)))
    /\ UNCHANGED <<layer, constructed, _symbols, labels, _symbolType,
                   _symbolMovie, _symbolTexture, _keyframeRef, _storedMtx,
                   alpha, visible, locals, ret>>
    /\ UNCHANGED stageVars
    /\ UNCHANGED sheetVars

\* draw(ctx)
Draw ==
    /\ constructed
    /\ calls' = DrawCalls(_symbolType, _symbolMovie, _symbolTexture)
    /\ ret' = DrawReturn(_symbolType)
    /\ lastOp' = Op("draw", Z(0))
    /\ repeated' = (lastOp = Op("draw", Z(0)))
    /\ UNCHANGED <<layer, constructed, _symbols, labels, _symbolType,
                   _symbolMovie, _symbolTexture, _keyframeRef, _storedMtx,
                   alpha, visible, childFrame, locals>>
    /\ UNCHANGED stageVars
    /\ UNCHANGED sheetVars

Next ==
    \/ Construct
    \/ \E frame \in Frames : DoSetFrame(frame)
    \/ \E delta \in Deltas : OnTick(delta)
    \/ Reset
    \/ Draw

Spec == Init /\ [][Next]_vars

(***************************************************************************)
(* Stage: the listeners it registers on DOM targets.                       *)
(***************************************************************************)
\* The elements a Stage is constructed over: a canvas, or a block element
\* in which the constructor creates a canvas of its own.
Elements == {"CANVAS", "DIV"}

\* The canvas the constructor takes for an element.
CanvasOf(element) == IF element = "CANVAS" THEN "canvas" ELSE "created"

\* The canvases a host assigns to Stage.canvas afterwards.
Canvases == {"canvas", "created", "another", NoCanvas}

\* The function created by the k-th creating call for the given handler.
Function(handler, k) == [handler |-> handler, made |-> k]

\* The Stage's fields and the page's registered listeners, as one record.
StageFields ==
    [canvas |-> canvas, _eventListeners |-> _eventListeners,
     _onResizeEventListener |-> _onResizeEventListener,
     listeners |-> listeners, closures |-> closures]

\* target.addEventListener(name, fn, false): a listener that is already
\* registered is not registered twice.
Registered(target, name, fn) == [target |-> target, name |-> name, fn |-> fn]

\* The registrations of the entries of an _eventListeners object.
RegistrationsOf(entries) ==
    {Registered(entries[k].window, entries[k].name, entries[k].fn) :
        k \in 1 .. Len(entries)}

\* The entries enableDOMEvents(true) creates.
NewEventListeners(st, windowsObject) ==
    << [name |-> "mouseup", window |-> windowsObject,
        fn |-> Function("_handleMouseUp", st.closures + 1)],
       [name |-> "mousemove", window |-> windowsObject,
        fn |-> Function("_handleMouseMove", st.closures + 1)],
       [name |-> "mousedown", window |-> st.canvas,
        fn |-> Function("_handleMouseDown", st.closures + 1)] >>

\* Mutant of enableDOMEvents: listeners are created and registered although
\* the stage already has its listeners.
enableDOMEvents_noEnabledTest(st, enable, windowEvents) ==
    IF ~enable /\ st._eventListeners # <<>>
    THEN [st EXCEPT !.listeners = @ \ RegistrationsOf(st._eventListeners),
                    !._eventListeners = <<>>]
    ELSE IF enable /\ st.canvas # NoCanvas
    THEN LET windowsObject == IF windowEvents THEN "window" ELSE "document"
             eventListeners == NewEventListeners(st, windowsObject)
         IN  [st EXCEPT !._eventListeners = eventListeners,
                        !.listeners = @ \cup RegistrationsOf(eventListeners),
                        !.closures = @ + 1]
    ELSE st

\* enableDOMEvents(enable) on the fields st.
enableDOMEvents(st, enable, windowEvents) ==
    IF ~enable /\ st._eventListeners # <<>>
    THEN [st EXCEPT !.listeners = @ \ RegistrationsOf(st._eventListeners),
                    !._eventListeners = <<>>]
    ELSE IF enable /\ st._eventListeners = <<>> /\ st.canvas # NoCanvas
    THEN LET windowsObject == IF windowEvents THEN "window" ELSE "document"
             eventListeners == NewEventListeners(st, windowsObject)
         IN  [st EXCEPT !._eventListeners = eventListeners,
                        !.listeners = @ \cup RegistrationsOf(eventListeners),
                        !.closures = @ + 1]
    ELSE st

\* enableAutoResize() on the fields st.
enableAutoResize(st) ==
    LET fn == Function("_handleWindowResize", st.closures + 1)
    IN  [st EXCEPT !._onResizeEventListener = fn,
                   !.listeners = @ \cup {Registered("window", "resize", fn)},
                   !.closures = @ + 1]

\* disableAutoResize() on the fields st.
disableAutoResize(st) ==
    [st EXCEPT !.listeners =
                   @ \ {Registered("window", "resize",
                                   st._onResizeEventListener)}]

\* The Stage's fields become those of the record st.
AssignStage(st) ==
    /\ canvas' = st.canvas
    /\ _eventListeners' = st._eventListeners
    /\ _onResizeEventListener' = st._onResizeEventListener
    /\ listeners' = st.listeners
    /\ closures' = st.closures

\* The calls of the model create at most MaxClosures generations of
\* listener functions.
CreatesWithin(st) == st.closures <= MaxClosures

\* new Stage(element, triggerResizeOnWindowResize)
NewStage(element, trigger) ==
    /\ ~stageBuilt
    /\ LET st0 == [StageFields EXCEPT !.canvas = CanvasOf(element)]
           st1 == enableDOMEvents(st0, TRUE, hasWindowEvents)
           st2 == IF trigger THEN enableAutoResize(st1) ELSE st1
       IN  AssignStage(st2)
    /\ stageBuilt' = TRUE
    /\ triggerResizeOnWindowResize' = trigger
    /\ stageOp' = StageOp("new Stage", trigger)
    /\ stageRepeated' = FALSE
    /\ UNCHANGED hasWindowEvents
    /\ UNCHANGED drawVars
    /\ UNCHANGED pointerVars
    /\ UNCHANGED overVars
    /\ UNCHANGED layerVars
    /\ UNCHANGED sheetVars

\* enableDOMEvents(enable)
EnableDOMEvents(enable) ==
    /\ stageBuilt
    /\ \E st \in {enableDOMEvents(StageFields, enable, hasWindowEvents)} :
           /\ CreatesWithin(st)
           /\ AssignStage(st)
    /\ stageOp' = StageOp("enableDOMEvents", enable)
    /\ stageRepeated' = (stageOp = StageOp("enableDOMEvents", enable))
    /\ UNCHANGED <<hasWindowEvents, stageBuilt, triggerResizeOnWindowResize>>
    /\ UNCHANGED drawVars
    /\ UNCHANGED pointerVars
    /\ UNCHANGED overVars
    /\ UNCHANGED layerVars
    /\ UNCHANGED sheetVars

\* stage.canvas = c
SetCanvas(c) ==
    /\ stageBuilt
    /\ c # canvas
    /\ canvas' = c
    /\ stageOp' = StageOp("canvas =", c # NoCanvas)
    /\ stageRepeated' = FALSE
    /\ UNCHANGED <<hasWindowEvents, stageBuilt, triggerResizeOnWindowResize,
                   _eventListeners, _onResizeEventListener, listeners,
                   closures>>
    /\ UNCHANGED drawVars
    /\ UNCHANGED pointerVars
    /\ UNCHANGED overVars
    /\ UNCHANGED layerVars
    /\ UNCHANGED sheetVars

\* enableAutoResize()
EnableAutoResize ==
    /\ stageBuilt
    /\ \E st \in {enableAutoResize(StageFields)} :
           /\ CreatesWithin(st)
           /\ AssignStage(st)
    /\ stageOp' = StageOp("enableAutoResize", TRUE)
    /\ stageRepeated' = (stageOp = StageOp("enableAutoResize", TRUE))
    /\ UNCHANGED <<hasWindowEvents, stageBuilt, triggerResizeOnWindowResize>>
    /\ UNCHANGED drawVars
    /\ UNCHANGED pointerVars
    /\ UNCHANGED overVars
    /\ UNCHANGED layerVars
    /\ UNCHANGED sheetVars

\* disableAutoResize()
DisableAutoResize ==
    /\ stageBuilt
    /\ AssignStage(disableAutoResize(StageFields))
    /\ stageOp' = StageOp("disableAutoResize", TRUE)
    /\ stageRepeated' = (stageOp = StageOp("disableAutoResize", TRUE))
    /\ UNCHANGED <<hasWindowEvents, stageBuilt, triggerResizeOnWindowResize>>
    /\ UNCHANGED drawVars
    /\ UNCHANGED pointerVars
    /\ UNCHANGED overVars
    /\ UNCHANGED layerVars
    /\ UNCHANGED sheetVars

\* A page before its Stage is constructed; no FlumpMovieLayer is involved.
StageInit ==
    /\ LayerInit
    /\ layer = "empty"
    /\ StageIdle
    /\ SheetIdle
    /\ hasWindowEvents \in BOOLEAN

StageNext ==
    \/ \E element \in Elements, trigger \in BOOLEAN : NewStage(element, trigger)
    \/ \E enable \in BOOLEAN : EnableDOMEvents(enable)
    \/ \E c \in Canvases : SetCanvas(c)
    \/ EnableAutoResize
    \/ DisableAutoResize

StageSpec == StageInit /\ [][StageNext]_vars

(***************************************************************************)
(* Stage: update and tick.                                                 *)
(***************************************************************************)
\* One thing an operation did: a signal it emitted, a call on the display
\* list or on the drawing context.
Effect(fn) == [fn |-> fn, delta |-> 0, rect |-> "none"]

\* Container.onTick(delta): the tick propagated through the display list.
Ticked(delta) == [fn |-> "onTick", delta |-> delta, rect |-> "none"]

\* ctx.clearRect over the draw rectangle or over the whole canvas.
Cleared(rect) == [fn |-> "ctx.clearRect", delta |-> 0, rect |-> rect]

\* The deltas a host passes to update and tick.
StageDeltas == {0, 1}

\* Mutant of update: drawstart is emitted once the canvas is cleared.
update_drawstartAfterClear(canvasNow, ticks, clears, rect, delta) ==
    IF canvasNow = NoCanvas THEN <<>>
    ELSE (IF ticks THEN <<Ticked(delta)>> ELSE <<>>)
         \o <<Effect("ctx.setTransform")>>
         \o (IF clears
             THEN <<Cleared(IF rect THEN "drawRect" ELSE "canvas")>>
             ELSE <<>>)
         \o <<Effect("drawstartSignal.emit")>>
         \o <<Effect("ctx.save")>>
         \o (IF rect
             THEN <<Effect("ctx.beginPath"), Effect("ctx.rect"),
                    Effect("ctx.clip")>>
             ELSE <<>>)
         \o <<Effect("updateContext"), Effect("draw"), Effect("ctx.restore"),
              Effect("drawendSignal.emit")>>

\* update(delta): what it emits, ticks and draws, in order, for the stage's
\* canvas, tickOnUpdate, autoClear and drawRect.
update(canvasNow, ticks, clears, rect, delta) ==
    IF canvasNow = NoCanvas THEN <<>>
    ELSE (IF ticks THEN <<Ticked(delta)>> ELSE <<>>)
         \o <<Effect("drawstartSignal.emit")>>
         \o <<Effect("ctx.setTransform")>>
         \o (IF clears
             THEN <<Cleared(IF rect THEN "drawRect" ELSE "canvas")>>
             ELSE <<>>)
         \o <<Effect("ctx.save")>>
         \o (IF rect
             THEN <<Effect("ctx.beginPath"), Effect("ctx.rect"),
                    Effect("ctx.clip")>>
             ELSE <<>>)
         \o <<Effect("updateContext"), Effect("draw"), Effect("ctx.restore"),
              Effect("drawendSignal.emit")>>

\* tick(delta): what it emits and ticks, in order.
tick(enabled, delta) ==
    IF ~enabled THEN <<>>
    ELSE <<Effect("tickstartSignal.emit"), Ticked(delta),
           Effect("tickendSignal.emit")>>

\* The stage's listeners, canvas and construction are left as they are.
SameStage ==
    UNCHANGED <<hasWindowEvents, stageBuilt, canvas,
                triggerResizeOnWindowResize, _eventListeners,
                _onResizeEventListener, listeners, closures>>

\* update(delta)
Update(delta) ==
    /\ stageBuilt
    /\ effects' = update(canvas, tickOnUpdate, autoClear, drawRect, delta)
    /\ stageOp' = StageOp("update", delta # 0)
    /\ stageRepeated' = (stageOp = StageOp("update", delta # 0))
    /\ UNCHANGED <<tickOnUpdate, tickEnabled, autoClear, drawRect>>
    /\ SameStage
    /\ UNCHANGED pointerVars
    /\ UNCHANGED overVars
    /\ UNCHANGED layerVars
    /\ UNCHANGED sheetVars

\* tick(delta)
Tick(delta) ==
    /\ stageBuilt
    /\ effects' = tick(tickEnabled, delta)
    /\ stageOp' = StageOp("tick", delta # 0)
    /\ stageRepeated' = (stageOp = StageOp("tick", delta # 0))
    /\ UNCHANGED <<tickOnUpdate, tickEnabled, autoClear, drawRect>>
    /\ SameStage
    /\ UNCHANGED pointerVars
    /\ UNCHANGED overVars
    /\ UNCHANGED layerVars
    /\ UNCHANGED sheetVars

\* stage.tickOnUpdate = ticks; stage.tickEnabled = enabled;
\* stage.autoClear = clears; stage.drawRect = a rectangle or null
SetDrawFields(ticks, enabled, clears, rect) ==
    /\ stageBuilt
    /\ <<ticks, enabled, clears, rect>>
           # <<tickOnUpdate, tickEnabled, autoClear, drawRect>>
    /\ tickOnUpdate' = ticks
    /\ tickEnabled' = enabled
    /\ autoClear' = clears
    /\ drawRect' = rect
    /\ effects' = <<>>
    /\ stageOp' = StageOp("fields =", TRUE)
    /\ stageRepeated' = FALSE
    /\ SameStage
    /\ UNCHANGED pointerVars
    /\ UNCHANGED overVars
    /\ UNCHANGED layerVars
    /\ UNCHANGED sheetVars

DrawNext ==
    \/ \E element \in Elements, trigger \in BOOLEAN : NewStage(element, trigger)
    \/ \E c \in Canvases : SetCanvas(c)
    \/ \E ticks \in BOOLEAN, enabled \in BOOLEAN, clears \in BOOLEAN,
          rect \in BOOLEAN : SetDrawFields(ticks, enabled, clears, rect)
    \/ \E delta \in StageDeltas : Update(delta)
    \/ \E delta \in StageDeltas : Tick(delta)

\* A page, the Stage constructed in it and updated by its host.
DrawSpec == StageInit /\ [][DrawNext]_vars

(***************************************************************************)
(* Stage: pointers.  The page delivers mouse events (pointer -1) and touch *)
(* events (pointer 0) to the handlers; the stage keeps one PointerData per *)
(* pointer and mirrors the primary pointer in mouseX, mouseY and           *)
(* mouseInBounds.                                                          *)
(***************************************************************************)

\* The canvas is CanvasWidth x CanvasHeight pixels and is laid out on the
\* page at twice that size, one page pixel from the page's corner.
CanvasWidth == 2
CanvasHeight == 2
RectLeft == 1
RectTop == 1
RectRight == 5
RectBottom == 5

PointerIds == {MousePointer, TouchPointer}

\* Where the pointers are on the page: the mouse anywhere across it, above,
\* within or below the canvas; a touch left of the canvas or within it.
Pages == 0 .. MaxPage
PageYs == {0, 2, 5}
TouchPages == {0, 2}

\* The display object under a canvas point: one child covers the origin.
NoTarget == "null"
_getObjectsUnderPoint(x, y) ==
    IF x = Z(0) /\ y = Z(0) THEN "child" ELSE NoTarget

\* The page listens on the stage for each of the stage's own events.
hasEventListener(type) ==
    type \in {"mouseenter", "mouseleave", "stagemousemove",
              "stagemousedown", "stagemouseup"}

\* new PointerData(0, 0)
PointerData ==
    [x |-> Z(0), y |-> Z(0), inBounds |-> FALSE, target |-> NoTarget]

\* The pointer fields of the stage as one record.
PointerFields ==
    [mouseMoveOutside |-> mouseMoveOutside, _pointerData |-> _pointerData,
     _primaryPointerID |-> _primaryPointerID, mouseX |-> mouseX,
     mouseY |-> mouseY, mouseInBounds |-> mouseInBounds,
     dispatched |-> <<>>]

\* _getPointerData(id): the stage after the lookup; the data is then
\* st._pointerData[id].
_getPointerData(st, id) ==
    IF id \in DOMAIN st._pointerData THEN st
    ELSE [st EXCEPT
            !._pointerData = (id :> PointerData) @@ @,
            !._primaryPointerID =
                IF @ = NoPointer \/ @ = MousePointer THEN id ELSE @]

\* pageX < 0 ? 0 : (pageX > w - 1 ? w - 1 : pageX)
Clamp(p, w) ==
    IF RLt(p, Z(0)) THEN Z(0)
    ELSE IF RLt(Z(w - 1), p) THEN Z(w - 1) ELSE p

\* pageX >= 0 && pageY >= 0 && pageX <= w - 1 && pageY <= h - 1
InBounds_canvasEdge(x, y) ==
    /\ ~RLt(x, Z(0))
    /\ ~RLt(y, Z(0))
    /\ ~RLt(Z(CanvasWidth), x)
    /\ ~RLt(Z(CanvasHeight), y)

InBounds(x, y) ==
    /\ ~RLt(x, Z(0))
    /\ ~RLt(y, Z(0))
    /\ ~RLt(Z(CanvasWidth - 1), x)
    /\ ~RLt(Z(CanvasHeight - 1), y)

\* The canvas coordinates of a page position.
CanvasX(pageX) ==
    RDiv(RSub(Z(pageX), Z(RectLeft)), R(RectRight - RectLeft, CanvasWidth))

CanvasY(pageY) ==
    RDiv(RSub(Z(pageY), Z(RectTop)), R(RectBottom - RectTop, CanvasHeight))

\* _updatePointerPosition(id, e, pageX, pageY)
_updatePointerPosition(st, id, pageX, pageY) ==
    LET x == CanvasX(pageX)
        y == CanvasY(pageY)
        st1 == _getPointerData(st, id)
        o == st1._pointerData[id]
        in == InBounds(x, y)
        o1 == IF in THEN [o EXCEPT !.x = x, !.y = y]
              ELSE IF st.mouseMoveOutside
                   THEN [o EXCEPT !.x = Clamp(x, CanvasWidth),
                                  !.y = Clamp(y, CanvasHeight)]
                   ELSE o
        o2 == [o1 EXCEPT !.inBounds = in]
        st2 == [st1 EXCEPT !._pointerData[id] = o2]
    IN  IF id = st1._primaryPointerID
        THEN [st2 EXCEPT !.mouseX = o2.x, !.mouseY = o2.y,
                         !.mouseInBounds = o2.inBounds]
        ELSE st2

\* new PointerEvent(type, bubbles, false, o.x, o.y, nativeEvent, pointerId,
\* pointerId == this._primaryPointerID, o.rawX, o.rawY)
PointerEvent(type, target, id, o) ==
    [type |-> type, target |-> target, pointerId |-> id, x |-> o.x,
     y |-> o.y]

\* _dispatchMouseEvent(target, type, bubbles, pointerId, o, nativeEvent)
_dispatchMouseEvent(st, target, type, bubbles, id) ==
    IF target = NoTarget \/ (~bubbles /\ ~hasEventListener(type)) THEN st
    ELSE [st EXCEPT !.dispatched =
              Append(@, PointerEvent(type, target, id, st._pointerData[id]))]

\* _handlePointerMove(id, e, pageX, pageY)
_handlePointerMove_moveFirst(st, canvasNow, id, pageX, pageY) ==
    IF canvasNow = NoCanvas THEN st
    ELSE LET st0 == _getPointerData(st, id)
             inBounds == st0._pointerData[id].inBounds
             st1 == _updatePointerPosition(st0, id, pageX, pageY)
             now == st1._pointerData[id].inBounds
             st3 == _dispatchMouseEvent(st1, "stage", "stagemousemove",
                                        FALSE, id)
             st2 == IF id = MousePointer /\ now = ~inBounds
                    THEN _dispatchMouseEvent(
                             st3, "stage",
                             IF inBounds THEN "mouseleave" ELSE "mouseenter",
                             FALSE, id)
                    ELSE st3
         IN  IF inBounds \/ now \/ st.mouseMoveOutside
             THEN _dispatchMouseEvent(st2, st2._pointerData[id].target,
                                      "pressmove", TRUE, id)
             ELSE st1

_handlePointerMove(st, canvasNow, id, pageX, pageY) ==
    IF canvasNow = NoCanvas THEN st
    ELSE LET st0 == _getPointerData(st, id)
             inBounds == st0._pointerData[id].inBounds
             st1 == _updatePointerPosition(st0, id, pageX, pageY)
             now == st1._pointerData[id].inBounds
             st2 == IF id = MousePointer /\ now = ~inBounds
                    THEN _dispatchMouseEvent(
                             st1, "stage",
                             IF inBounds THEN "mouseleave" ELSE "mouseenter",
                             FALSE, id)
                    ELSE st1
             st3 == _dispatchMouseEvent(st2, "stage", "stagemousemove",
                                        FALSE, id)
         IN  IF inBounds \/ now \/ st.mouseMoveOutside
             THEN _dispatchMouseEvent(st3, st3._pointerData[id].target,
                                      "pressmove", TRUE, id)
             ELSE st1

\* _handlePointerDown(id, e, pageX, pageY), with a page position
_handlePointerDown(st, id, pageX, pageY) ==
    LET st1 == _updatePointerPosition(st, id, pageX, pageY)
        o == st1._pointerData[id]
        st2 == IF o.inBounds
               THEN _dispatchMouseEvent(st1, "stage", "stagemousedown",
                                        FALSE, id)
               ELSE st1
        target == _getObjectsUnderPoint(o.x, o.y)
        st3 == [st2 EXCEPT !._pointerData[id].target = target]
    IN  _dispatchMouseEvent(st3, target, "mousedown", TRUE, id)

\* _handlePointerUp(id, e, clear)
_handlePointerUp(st, id, clear) ==
    LET st0 == _getPointerData(st, id)
        o == st0._pointerData[id]
        st1 == _dispatchMouseEvent(st0, "stage", "stagemouseup", FALSE, id)
        oTarget == o.target
        target == IF oTarget # NoTarget
                  THEN _getObjectsUnderPoint(o.x, o.y) ELSE NoTarget
        st2 == IF target = oTarget
               THEN _dispatchMouseEvent(st1, oTarget, "click", TRUE, id)
               ELSE st1
        st3 == _dispatchMouseEvent(st2, oTarget, "pressup", TRUE, id)
    IN  IF clear
        THEN [st3 EXCEPT
                !._primaryPointerID = IF id = @ THEN NoPointer ELSE @,
                !._pointerData =
                    [i \in DOMAIN @ \ {id} |-> @[i]]]
        ELSE [st3 EXCEPT !._pointerData[id].target = NoTarget]

\* The stage's pointer fields after a handler ran.
AssignPointers(st) ==
    /\ _pointerData' = st._pointerData
    /\ _primaryPointerID' = st._primaryPointerID
    /\ mouseX' = st.mouseX
    /\ mouseY' = st.mouseY
    /\ mouseInBounds' = st.mouseInBounds
    /\ dispatched' = st.dispatched
    /\ UNCHANGED mouseMoveOutside

\* A touch is cleared when it is lifted, the mouse is not.
Clears(id) == id = TouchPointer

\* a mousemove or a touch move reaches the stage
HandlePointerMove(id, pageX, pageY) ==
    /\ stageBuilt
    /\ \E st \in {_handlePointerMove(PointerFields, canvas, id, pageX,
                                     pageY)} : AssignPointers(st)
    /\ domEvent' = DOMEvent("_handlePointerMove", id, pageX, pageY)
    /\ stageOp' = StageOp("_handlePointerMove", id = MousePointer)
    /\ stageRepeated' = FALSE
    /\ SameStage
    /\ UNCHANGED drawVars
    /\ UNCHANGED overVars
    /\ UNCHANGED layerVars
    /\ UNCHANGED sheetVars

\* a mousedown or a touch start reaches the stage; the handler reads the
\* canvas's rectangle, so the stage has a canvas
HandlePointerDown(id, pageX, pageY) ==
    /\ stageBuilt
    /\ canvas # NoCanvas
    /\ \E st \in {_handlePointerDown(PointerFields, id, pageX, pageY)} :
           AssignPointers(st)
    /\ domEvent' = DOMEvent("_handlePointerDown", id, pageX, pageY)
    /\ stageOp' = StageOp("_handlePointerDown", id = MousePointer)
    /\ stageRepeated' = FALSE
    /\ SameStage
    /\ UNCHANGED drawVars
    /\ UNCHANGED overVars
    /\ UNCHANGED layerVars
    /\ UNCHANGED sheetVars

\* a mouseup or a touch end reaches the stage
HandlePointerUp(id) ==
    /\ stageBuilt
    /\ \E st \in {_handlePointerUp(PointerFields, id, Clears(id))} :
           AssignPointers(st)
    /\ domEvent' = DOMEvent("_handlePointerUp", id, 0, 0)
    /\ stageOp' = StageOp("_handlePointerUp", id = MousePointer)
    /\ stageRepeated' = FALSE
    /\ SameStage
    /\ UNCHANGED drawVars
    /\ UNCHANGED overVars
    /\ UNCHANGED layerVars
    /\ UNCHANGED sheetVars

\* stage.mouseMoveOutside = outside
SetMouseMoveOutside(outside) ==
    /\ stageBuilt
    /\ outside # mouseMoveOutside
    /\ mouseMoveOutside' = outside
    /\ dispatched' = <<>>
    /\ domEvent' = NoDOMEvent
    /\ stageOp' = StageOp("mouseMoveOutside =", outside)
    /\ stageRepeated' = FALSE
    /\ UNCHANGED <<_pointerData, _primaryPointerID, mouseX, mouseY,
                   mouseInBounds>>
    /\ SameStage
    /\ UNCHANGED drawVars
    /\ UNCHANGED overVars
    /\ UNCHANGED layerVars
    /\ UNCHANGED sheetVars

PointerNext ==
    \/ NewStage("CANVAS", FALSE)
    \/ \E c \in {NoCanvas, "canvas"} : SetCanvas(c)
    \/ \E outside \in BOOLEAN : SetMouseMoveOutside(outside)
    \/ \E pageX \in Pages, pageY \in PageYs :
           HandlePointerMove(MousePointer, pageX, pageY)
    \/ \E page \in TouchPages : HandlePointerMove(TouchPointer, page, page)
    \/ \E pageX \in Pages, pageY \in PageYs :
           HandlePointerDown(MousePointer, pageX, pageY)
    \/ \E page \in TouchPages : HandlePointerDown(TouchPointer, page, page)
    \/ \E id \in PointerIds : HandlePointerUp(id)

\* A page with window events, the Stage constructed in it and the pointers
\* moved over it.
PointerInit == StageInit /\ hasWindowEvents = TRUE

PointerSpec == PointerInit /\ [][PointerNext]_vars

(***************************************************************************)
(* Stage: mouse-over polling.  enableMouseOver sets an interval on the     *)
(* page that polls _testMouseOver; the page fires the intervals that are   *)
(* active.                                                                 *)
(***************************************************************************)
\* The frequencies enableMouseOver is called with.
Frequencies == {Z(-1), Z(0), R(1, 2), Z(20), Z(50), Z(60)}

\* The mouse-over fields of the stage and the page's intervals, as one
\* record.
OverFields ==
    [_mouseOverIntervalID |-> _mouseOverIntervalID, intervals |-> intervals,
     timers |-> timers, effects |-> <<>>, interacts |-> FALSE]

\* setInterval(fn, period): the page's next interval.
Interval(id, period) == [id |-> id, period |-> period]

\* clearInterval(id)
clearInterval(active, id) == {iv \in active : iv.id # id}

\* Math.min(50, frequency)
Min(p, q) == IF RLt(q, p) THEN q ELSE p

\* _testMouseOver(clear), up to its first test: without an interval it
\* returns at once.
_testMouseOver(id) ==
    IF id = NoInterval THEN <<>> ELSE <<Effect("_testMouseOver")>>

\* enableMouseOver(frequency)
enableMouseOver_keepsInterval(ov, given, frequency) ==
    LET ov1 == [ov EXCEPT !._mouseOverIntervalID = NoInterval]
        ov2 == IF ov._mouseOverIntervalID # NoInterval /\ given
                  /\ frequency = Z(0)
               THEN [ov1 EXCEPT !.effects =
                         _testMouseOver(ov1._mouseOverIntervalID)]
               ELSE ov1
        f == IF ~given THEN Z(20) ELSE frequency
    IN  IF given /\ ~RLt(Z(0), frequency) THEN ov2
        ELSE [ov2 EXCEPT
                !.interacts = TRUE,
                !.timers = @ + 1,
                !._mouseOverIntervalID = ov2.timers + 1,
                !.intervals =
                    @ \cup {Interval(ov2.timers + 1,
                                     RDiv(Z(1000), Min(Z(50), f)))}]

enableMouseOver(ov, given, frequency) ==
    LET ov1 == IF ov._mouseOverIntervalID # NoInterval
               THEN [ov EXCEPT
                       !.intervals =
                           clearInterval(@, ov._mouseOverIntervalID),
                       !._mouseOverIntervalID = NoInterval]
               ELSE ov
        ov2 == IF ov._mouseOverIntervalID # NoInterval /\ given
                  /\ frequency = Z(0)
               THEN [ov1 EXCEPT !.effects =
                         _testMouseOver(ov1._mouseOverIntervalID)]
               ELSE ov1
        f == IF ~given THEN Z(20) ELSE frequency
    IN  IF given /\ ~RLt(Z(0), frequency) THEN ov2
        ELSE [ov2 EXCEPT
                !.interacts = TRUE,
                !.timers = @ + 1,
                !._mouseOverIntervalID = ov2.timers + 1,
                !.intervals =
                    @ \cup {Interval(ov2.timers + 1,
                                     RDiv(Z(1000), Min(Z(50), f)))}]

\* enableMouseOver(frequency), and enableMouseOver() when not given; where
\* it goes on to enableMouseInteraction, that calls enableDOMEvents(true)
EnableMouseOver(given, frequency) ==
    /\ stageBuilt
    /\ \E ov \in {enableMouseOver(OverFields, given, frequency)} :
           /\ ov.timers <= MaxIntervals
           /\ _mouseOverIntervalID' = ov._mouseOverIntervalID
           /\ intervals' = ov.intervals
           /\ timers' = ov.timers
           /\ effects' = ov.effects
           /\ \E st \in {IF ov.interacts
                         THEN enableDOMEvents(StageFields, TRUE,
                                              hasWindowEvents)
                         ELSE StageFields} :
                  /\ CreatesWithin(st)
                  /\ AssignStage(st)
    /\ mouseOverCall' = MouseOverCall(given, frequency)
    /\ stageOp' = StageOp("enableMouseOver", given)
    /\ stageRepeated' = FALSE
    /\ UNCHANGED <<hasWindowEvents, stageBuilt, triggerResizeOnWindowResize>>
    /\ UNCHANGED <<tickOnUpdate, tickEnabled, autoClear, drawRect>>
    /\ UNCHANGED pointerVars
    /\ UNCHANGED layerVars
    /\ UNCHANGED sheetVars

\* an active interval of the page fires: this._testMouseOver()
MouseOverPoll ==
    /\ stageBuilt
    /\ intervals # {}
    /\ effects' = _testMouseOver(_mouseOverIntervalID)
    /\ stageOp' = StageOp("_testMouseOver", TRUE)
    /\ stageRepeated' = (stageOp = StageOp("_testMouseOver", TRUE))
    /\ UNCHANGED <<tickOnUpdate, tickEnabled, autoClear, drawRect>>
    /\ SameStage
    /\ UNCHANGED pointerVars
    /\ UNCHANGED overVars
    /\ UNCHANGED layerVars
    /\ UNCHANGED sheetVars

MouseOverNext ==
    \/ \E element \in Elements, trigger \in BOOLEAN : NewStage(element, trigger)
    \/ \E enable \in BOOLEAN : EnableDOMEvents(enable)
    \/ \E frequency \in Frequencies : EnableMouseOver(TRUE, frequency)
    \/ EnableMouseOver(FALSE, Z(0))
    \/ MouseOverPoll

\* A page, the Stage constructed in it and its mouse-over polling switched
\* on and off.
MouseOverSpec == StageInit /\ [][MouseOverNext]_vars

(***************************************************************************)
(* SpriteSheet: the constructor's initialize(data) and the loading of the  *)
(* images.                                                                 *)
(***************************************************************************)
\* An entry of data.images: a canvas, an image that has loaded, an image
\* that has not, or a URL, for which initialize creates an image that has
\* not loaded.
ImageKinds == {"canvas", "img complete", "img loading", "url"}

\* !img.getContext && !img.complete, img being the created image for a URL
Pending(kind) == kind \in {"img loading", "url"}

ImageLists ==
    {<<>>} \cup {<<k>> : k \in ImageKinds}
           \cup {<<j, k>> : j \in ImageKinds, k \in ImageKinds}

\* An animation definition.  next is true, false, undefined or a name;
\* speed is a number when given.  frames holds the frame of `7` and `[7]`,
\* start and end of `[start, end, next, speed]`, and the frames of
\* `{frames, next, speed}`, where frames is a number or an array.
AnimationDef(form, frames, next, speedGiven, speed) ==
    [form |-> form, frames |-> frames, next |-> next,
     speedGiven |-> speedGiven, speed |-> speed]

AnimationNames == {"run", "jump"}

\* next and speed as they are given: every next without a speed, and the
\* speeds 0 and 2 without a next.
NextSpeeds ==
    {<<next, FALSE, 0>> :
        next \in {Undefined, "true", "false"} \cup AnimationNames}
    \cup {<<Undefined, TRUE, 0>>, <<Undefined, TRUE, 2>>}

AnimationDefs ==
    {AnimationDef("number", <<7>>, Undefined, FALSE, 0),
     AnimationDef("[frame]", <<7>>, Undefined, FALSE, 0)}
    \cup {AnimationDef("[start,end,next,speed]", fr, ns[1], ns[2], ns[3]) :
            fr \in {<<3, 3>>, <<3, 5>>}, ns \in NextSpeeds}
    \cup {AnimationDef("{frames: number}", <<7>>, ns[1], ns[2], ns[3]) :
            ns \in NextSpeeds}
    \cup {AnimationDef("{frames: array}", fr, ns[1], ns[2], ns[3]) :
            fr \in {<<7>>, <<1, 2, 3>>}, ns \in NextSpeeds}

\* data.animations, in the order of its keys: one or two animations.
Animation(name, def) == [name |-> name, def |-> def]

AnimationLists ==
    {<<Animation(name, def)>> : name \in AnimationNames, def \in AnimationDefs}
    \cup {<<Animation(names[1], d1), Animation(names[2], d2)>> :
            names \in {<<"run", "jump">>, <<"jump", "run">>},
            d1 \in AnimationDefs, d2 \in AnimationDefs}

\* The sheets of the model: every list of images with one animation, and
\* every list of animations without images, with two loaded images, and
\* with an array of one frame, with and without the image it is cut from.
FewAnimations ==
    {<<Animation("run", AnimationDef("number", <<7>>, Undefined, FALSE, 0))>>}

SheetDatas ==
    {[images |-> images, frames |-> frames, animations |-> animations] :
        images \in ImageLists,
        frames \in {SheetFrames("null", 0), SheetFrames("object", 0)},
        animations \in FewAnimations}
    \cup
    {[images |-> imf[1], frames |-> imf[2], animations |-> animations] :
        imf \in {<<<<>>, SheetFrames("null", 0)>>,
                 <<<<"img complete", "img complete">>,
                   SheetFrames("null", 0)>>,
                 <<<<"img complete">>, SheetFrames("array", 1)>>,
                 <<<<>>, SheetFrames("array", 1)>>},
        animations \in AnimationLists}

\* The array the local variable `a` of initialize refers to, of which only
\* the length matters; `a` is undefined until it is first assigned.
NoArray == [defined |-> FALSE, length |-> 0]
Array(length) == [defined |-> TRUE, length |-> length]

\* initialize, parse images: the sheet after the images from the i-th.
RECURSIVE ParseImages(_, _, _)
ParseImages(sh, images, i) ==
    IF i > Len(images) THEN sh
    ELSE ParseImages(
             IF Pending(images[i])
             THEN [sh EXCEPT !.loadCount = @ + 1,
                             !.complete = FALSE,
                             !.onload = @ \cup {i}]
             ELSE sh,
             images, i + 1)

\* The loops of _calculateFrames from the cell at (x, y) of the i-th image
\* on: rows from the top, cells from the left, images in order, until
\* maxFrames frames are cut (break imgLoop).
RECURSIVE CutFrames(_, _, _, _, _, _, _, _)
CutFrames(frames, sizes, i, y, x, frameWidth, frameHeight, maxFrames) ==
    IF i > Len(sizes) THEN frames
    ELSE IF y > sizes[i][2] - frameHeight
    THEN CutFrames(frames, sizes, i + 1, 0, 0, frameWidth, frameHeight,
                   maxFrames)
    ELSE IF x > sizes[i][1] - frameWidth
    THEN CutFrames(frames, sizes, i, y + frameHeight, 0, frameWidth,
                   frameHeight, maxFrames)
    ELSE IF Len(frames) >= maxFrames THEN frames
    ELSE CutFrames(Append(frames, Frame(i, x, y)), sizes, i, y, x + frameWidth,
                   frameWidth, frameHeight, maxFrames)

\* this._numFrames || 100000
MaxFramesOf(numFrames) ==
    IF numFrames.defined /\ numFrames.value # 0 THEN numFrames.value
    ELSE DefaultMaxFrames

\* _calculateFrames(), on the sheet constructed from sheetData, whose
\* _frameWidth and _frameHeight are those of data.frames and whose _images
\* is null when data.images has no entry: imgs.length then throws a
\* TypeError, after _frames was set to the empty list.
_calculateFrames(sh) ==
    IF sh._frames.defined \/ sheetData.frames.width = 0 THEN sh
    ELSE IF Len(sheetData.images) = 0
    THEN [sh EXCEPT !._frames = FrameList(<<>>), !.error = "TypeError"]
    ELSE LET list == CutFrames(<<>>, imageSizes, 1, 0, 0,
                               sheetData.frames.width, sheetData.frames.height,
                               MaxFramesOf(sh._numFrames))
         IN  [sh EXCEPT !._frames = FrameList(list),
                        !._numFrames = NumFrames(TRUE, Len(list)),
                        !.calculated = @ + 1]

\* initialize, parse frames: nothing for null; for an array the list of its
\* frames, each read from this._images, which throws a TypeError when
\* _images is null; for an object the sizes and the count, and the frame
\* list at once when no image is pending.
ParseFrames(sh, data) ==
    IF data.frames.form = "null" THEN sh
    ELSE IF data.frames.form = "array"
    THEN IF data.frames.length > 0 /\ Len(data.images) = 0
         THEN [sh EXCEPT !._frames = FrameList(<<>>), !.error = "TypeError"]
         ELSE [sh EXCEPT !._frames =
                  FrameList([k \in 1 .. data.frames.length |->
                                Frame(1, 0, 0)])]
    ELSE LET o == [sh EXCEPT !._numFrames =
                      NumFrames(data.frames.countGiven, data.frames.count)]
         IN  IF o.loadCount = 0 THEN _calculateFrames(o) ELSE o

ParsedArray(data) ==
    IF data.frames.form = "array" THEN Array(data.frames.length)
    ELSE IF Len(data.images) > 0 THEN Array(Len(data.images))
    ELSE NoArray

\* anim.frames
AnimationFrames(def) ==
    IF def.form = "[start,end,next,speed]"
    THEN [k \in 1 .. (def.frames[2] - def.frames[1] + 1) |->
             def.frames[1] + k - 1]
    ELSE def.frames

\* `a` after the frames of an animation were set: the [frame] form sets
\* anim.frames without assigning a.
AssignedArray(a, def) ==
    IF def.form = "[frame]" THEN a ELSE Array(Len(AnimationFrames(def)))

\* anim.next === true || anim.next === undefined, then
\* anim.next === false || (a.length < 2 && anim.next == name); the result
\* is a TypeError where a.length is read of the undefined a
ThrowsOnArray(a, def, name) == def.next # "false" /\ ~a.defined

NextOf(a, def, name) ==
    LET next == IF def.next \in {"true", Undefined} THEN name ELSE def.next
    IN  IF next = "false" \/ (a.length < 2 /\ next = name) THEN NullRef
        ELSE next

\* if(!anim.speed) anim.speed = 1
SpeedOf(def) == IF ~def.speedGiven \/ def.speed = 0 THEN 1 ELSE def.speed

\* initialize, parse animations: the sheet after the animations from the
\* k-th, a being the array of the local variable.
RECURSIVE ParseAnimations(_, _, _, _)
ParseAnimations(sh, animations, k, a) ==
    IF k > Len(animations) THEN sh
    ELSE LET name == animations[k].name
             def == animations[k].def
             a1 == AssignedArray(a, def)
             anim == [name |-> name, frames |-> AnimationFrames(def),
                      next |-> NextOf(a1, def, name), speed |-> SpeedOf(def)]
         IN  IF ThrowsOnArray(a1, def, name)
             THEN [sh EXCEPT !.error = "TypeError"]
             ELSE ParseAnimations(
                      [sh EXCEPT !._animations = Append(@, name),
                                 !._data = (name :> anim) @@ @],
                      animations, k + 1, a1)

\* initialize(data)
initialize(sh, data) ==
    LET parsed == ParseFrames(ParseImages(sh, data.images, 1), data)
    IN  IF parsed.error # NoError THEN parsed
        ELSE ParseAnimations([parsed EXCEPT !.animationsArray = TRUE],
                             data.animations, 1, ParsedArray(data))

\* _handleImageLoad()
_handleImageLoad_postDecrement(sh) ==
    IF sh.loadCount = 0
    THEN [_calculateFrames([sh EXCEPT !.loadCount = @ - 1])
             EXCEPT !.complete = TRUE, !.dispatches = 1]
    ELSE [sh EXCEPT !.loadCount = @ - 1]

_handleImageLoad(sh) ==
    IF sh.loadCount - 1 = 0
    THEN [_calculateFrames([sh EXCEPT !.loadCount = @ - 1])
             EXCEPT !.complete = TRUE, !.dispatches = 1]
    ELSE [sh EXCEPT !.loadCount = @ - 1]

\* The stage and the layer are not involved.
SheetOnly ==
    /\ UNCHANGED layerVars
    /\ UNCHANGED stageVars

\* new SpriteSheet(data)
NewSpriteSheet ==
    /\ ~sheetBuilt
    /\ \E sh \in {IF dataOrUrl = "data"
                   THEN initialize(SheetFields, sheetData)
                   ELSE SheetFields} :
           /\ loadCount' = sh.loadCount
           /\ complete' = sh.complete
           /\ onload' = sh.onload
           /\ _animations' = sh._animations
           /\ _data' = sh._data
           /\ sheetError' = sh.error
           /\ animationsArray' = sh.animationsArray
           /\ _frames' = sh._frames
           /\ _numFrames' = sh._numFrames
           /\ calculated' = sh.calculated
    /\ url' = (dataOrUrl = "url")
    /\ sheetBuilt' = TRUE
    /\ sheetOp' = "new SpriteSheet"
    /\ UNCHANGED <<sheetData, completeEvents, dataOrUrl, _hasLoaded,
                   imageSizes, promises, loadResult>>
    /\ SheetOnly

\* the image i has loaded: img.onload()
ImageLoad(i) ==
    /\ sheetBuilt
    /\ i \in onload
    /\ \E sh \in {_handleImageLoad([loadCount |-> loadCount,
                                    complete |-> complete,
                                    dispatches |-> 0,
                                    _frames |-> _frames,
                                    _numFrames |-> _numFrames,
                                    calculated |-> calculated,
                                    error |-> NoError])} :
           /\ loadCount' = sh.loadCount
           /\ complete' = sh.complete
           /\ completeEvents' = completeEvents + sh.dispatches
           /\ _frames' = sh._frames
           /\ _numFrames' = sh._numFrames
           /\ calculated' = sh.calculated
    /\ onload' = onload \ {i}
    /\ sheetOp' = "img.onload"
    /\ UNCHANGED <<sheetData, sheetBuilt, sheetError, _animations, _data,
                   dataOrUrl, url, animationsArray, _hasLoaded, imageSizes,
                   promises, loadResult>>
    /\ SheetOnly

SheetInit ==
    /\ LayerInit
    /\ layer = "empty"
    /\ StageIdle
    /\ hasWindowEvents = TRUE
    /\ sheetData \in SheetDatas
    /\ sheetBuilt = FALSE
    /\ sheetError = NoError
    /\ loadCount = 0
    /\ complete = TRUE
    /\ onload = {}
    /\ completeEvents = 0
    /\ _animations = <<>>
    /\ _data = <<>>
    /\ sheetOp = "none"
    /\ LoadIdle

SheetNext ==
    \/ NewSpriteSheet
    \/ \E i \in onload : ImageLoad(i)

\* A SpriteSheet constructed from data, and its images loading.
SheetSpec == SheetInit /\ [][SheetNext]_vars

(***************************************************************************)
(* SpriteSheet.load and the polling of the promise it returns.             *)
(***************************************************************************)
\* load() threw or handed over to SpriteSheet.load: no promise of its own.
NoPromise == Promise(0, FALSE, 0, FALSE, FALSE, Z(0))

\* What load(onProgress) does on the sheet sh: how it ends, and the promise
\* it returns when it returns one.  this._animations.length is read of null
\* on a sheet that was never initialized, which throws a TypeError.
load(sh, onProgress) ==
    IF sh._hasLoaded
    THEN [result |-> "resolved",
          promise |-> Promise(0, FALSE, 1, onProgress, onProgress, Z(1))]
    ELSE IF ~sh.animationsArray
    THEN [result |-> "TypeError", promise |-> NoPromise]
    ELSE IF Len(sh._animations) > 0
    THEN [result |-> "polling",
          promise |-> Promise(sh.loadCount, TRUE, 0, onProgress, FALSE, Z(0))]
    ELSE IF ~sh.url
    THEN [result |-> "Error: url is not set and there for can not be loaded",
          promise |-> NoPromise]
    ELSE [result |-> "SpriteSheet.load(url, this)", promise |-> NoPromise]

\* Mutant of Polled: the promise resolves whatever loadCount is.
Polled_noCountTest(pr, count) ==
    LET told == IF pr.onProgress
                THEN [pr EXCEPT !.reported = TRUE,
                                !.progress = RDiv(Z(pr.total - count),
                                                  Z(pr.total))]
                ELSE pr
    IN  [told EXCEPT !.resolved = @ + 1, !.polling = FALSE]

\* One run of the interval's callback on the promise pr, loadCount being
\* count: the progress is reported, and with no image pending _hasLoaded is
\* set, the promise is resolved and the interval cleared.
Polled(pr, count) ==
    LET told == IF pr.onProgress
                THEN [pr EXCEPT !.reported = TRUE,
                                !.progress = RDiv(Z(pr.total - count),
                                                  Z(pr.total))]
                ELSE pr
    IN  IF count = 0
        THEN [told EXCEPT !.resolved = @ + 1, !.polling = FALSE]
        ELSE told

\* sheet.load(onProgress)
Load(onProgress) ==
    /\ sheetBuilt
    /\ sheetError = NoError
    /\ Len(promises) < MaxLoads
    /\ \E res \in {load([_hasLoaded |-> _hasLoaded,
                         animationsArray |-> animationsArray,
                         _animations |-> _animations, url |-> url,
                         loadCount |-> loadCount], onProgress)} :
           /\ loadResult' = res.result
           /\ promises' = IF res.result \in {"resolved", "polling"}
                          THEN Append(promises, res.promise)
                          ELSE promises
    /\ sheetOp' = "load"
    /\ UNCHANGED <<sheetData, sheetBuilt, sheetError, loadCount, complete,
                   onload, completeEvents, _animations, _data, dataOrUrl, url,
                   animationsArray, _hasLoaded, _frames, _numFrames,
                   calculated, imageSizes>>
    /\ SheetOnly

\* the interval of the p-th promise fires
Poll(p) ==
    /\ p \in 1 .. Len(promises)
    /\ promises[p].polling
    /\ \E pr \in {Polled(promises[p], loadCount)} :
           /\ promises' = [promises EXCEPT ![p] = pr]
           /\ _hasLoaded' = (_hasLoaded \/ pr.resolved > promises[p].resolved)
    /\ sheetOp' = "poll"
    /\ UNCHANGED <<sheetData, sheetBuilt, sheetError, loadCount, complete,
                   onload, completeEvents, _animations, _data, dataOrUrl, url,
                   animationsArray, _frames, _numFrames, calculated,
                   imageSizes, loadResult>>
    /\ SheetOnly

\* The sheets load() is called on: up to two images, pending or not, with
\* one animation or none, constructed from data, from a url or from nothing.
LoadDatas ==
    {[images |-> images, frames |-> SheetFrames("null", 0),
      animations |-> animations] :
        images \in {<<>>, <<"img complete">>, <<"url">>,
                    <<"url", "img complete">>, <<"img loading", "url">>},
        animations \in FewAnimations \cup {<<>>}}

LoadInit ==
    /\ LayerInit
    /\ layer = "empty"
    /\ StageIdle
    /\ hasWindowEvents = TRUE
    /\ sheetData \in LoadDatas
    /\ dataOrUrl \in {"data", "url", "undefined"}
    /\ dataOrUrl # "data" => sheetData = NoSheetData
    /\ sheetBuilt = FALSE
    /\ sheetError = NoError
    /\ loadCount = 0
    /\ complete = TRUE
    /\ onload = {}
    /\ completeEvents = 0
    /\ _animations = <<>>
    /\ _data = <<>>
    /\ sheetOp = "none"
    /\ url = FALSE
    /\ animationsArray = FALSE
    /\ _hasLoaded = FALSE
    /\ _frames = NoFrames
    /\ _numFrames = NumFrames(TRUE, 0)
    /\ calculated = 0
    /\ imageSizes = <<>>
    /\ promises = <<>>
    /\ loadResult = "none"

LoadNext ==
    \/ NewSpriteSheet
    \/ \E i \in onload : ImageLoad(i)
    \/ \E onProgress \in BOOLEAN : Load(onProgress)
    \/ \E p \in 1 .. MaxLoads : Poll(p)

\* A SpriteSheet, its images loading and its load() promises polling: every
\* pending image fires onload, and every interval keeps firing.
LoadSpec ==
    /\ LoadInit
    /\ [][LoadNext]_vars
    /\ \A i \in 1 .. 2 : WF_vars(ImageLoad(i))
    /\ \A p \in 1 .. MaxLoads : WF_vars(Poll(p))

(***************************************************************************)
(* SpriteSheet with grid frames: data.frames = {width, height, count}.     *)
(***************************************************************************)
\* getNumFrames() without an animation
getNumFrames ==
    IF _frames.defined THEN NumFrames(TRUE, Len(_frames.list)) ELSE _numFrames

\* The width and height of an image file.
ImageSizes == {<<2, 2>>, <<3, 2>>, <<1, 3>>}

\* Sheets with grid frames: up to two images, loaded or to be loaded, cells
\* of 1 or 2 by 1 or 2, and a count that is omitted, 0, 1, 3 or 9.
GridDatas ==
    {[images |-> images,
      frames |-> GridFrames(cell[1], cell[2], count[1], count[2]),
      animations |-> <<>>] :
        images \in {<<>>} \cup {<<k>> : k \in {"img complete", "url"}}
                          \cup {<<j, k>> : j \in {"img complete", "url"},
                                           k \in {"img complete", "url"}},
        cell \in {1, 2} \X {1, 2},
        count \in {<<FALSE, 0>>, <<TRUE, 0>>, <<TRUE, 1>>, <<TRUE, 3>>,
                   <<TRUE, 9>>}}

GridInit ==
    /\ LayerInit
    /\ layer = "empty"
    /\ StageIdle
    /\ hasWindowEvents = TRUE
    /\ sheetData \in GridDatas
    /\ imageSizes \in UNION {[1 .. n -> ImageSizes] : n \in 0 .. 2}
    /\ Len(imageSizes) = Len(sheetData.images)
    /\ sheetBuilt = FALSE
    /\ sheetError = NoError
    /\ loadCount = 0
    /\ complete = TRUE
    /\ onload = {}
    /\ completeEvents = 0
    /\ _animations = <<>>
    /\ _data = <<>>
    /\ sheetOp = "none"
    /\ dataOrUrl = "data"
    /\ url = FALSE
    /\ animationsArray = FALSE
    /\ _hasLoaded = FALSE
    /\ _frames = NoFrames
    /\ _numFrames = NumFrames(TRUE, 0)
    /\ calculated = 0
    /\ promises = <<>>
    /\ loadResult = "none"

\* A SpriteSheet with grid frames constructed, and its images loading.
GridSpec == GridInit /\ [][SheetNext]_vars

(***************************************************************************)
(* Vocabulary of the properties.                                           *)
(***************************************************************************)
\* The last operation ran setFrame (the constructor ends with setFrame(0)).
SetFrameRan == lastOp.op \in {"setFrame", "new FlumpMovieLayer"}

\* The layer's active child: the ref it was created for, or none.
NoChild == "none"

ActiveChild ==
    IF _symbolType = DISPLAYOBJECT THEN _symbolMovie
    ELSE IF _symbolType = TEXTURE THEN _symbolTexture
    ELSE NoChild

\* The keyframe's ref names a symbol (it is neither null nor -1).
RefSet(kf) == kf.ref \notin {NullRef, MinusOneRef}

RLe(p, q) == IsFinite(p) /\ IsFinite(q) /\ (p = q \/ RLt(p, q))

\* p lies between lo (inclusive) and hi (exclusive), whichever is larger.
RBetween(p, lo, hi) ==
    IF lo = hi THEN p = lo
    ELSE IF RLt(lo, hi) THEN RLe(lo, p) /\ RLt(p, hi)
    ELSE RLt(hi, p) /\ RLe(p, lo)

\* floor(r) of a finite rational.
Floor(r) == r[1] \div r[2]

\* The fields setFrame interpolates, and those it takes from the keyframe.
Interpolated == {"x", "y", "scaleX", "scaleY", "skewX", "skewY", "alpha"}

Pivots == {"pivotX", "pivotY"}

\* The positions of the keyframes whose span [index, index + duration)
\* holds the integer frame n; the last keyframe's span has no end.
Containing(datas, n) ==
    {i \in 1 .. Len(datas) :
        /\ datas[i].index <= n
        /\ (n < datas[i].index + datas[i].duration \/ i = Len(datas))}

\* Keyframe i has a next keyframe.
HasNext(datas, i) == i < Len(datas)

\* (frame - kf.index) / kf.duration
RawT(kf, frame) == RDiv(RSub(frame, Z(kf.index)), Z(kf.duration))

\* The eased factor as the specification words it.
EasedT(ease, traw) ==
    IF ease = Z(0) THEN traw
    ELSE IF RLt(ease, Z(0))
    THEN RAdd(RMul(RNeg(ease),
                   RSub(Z(1), RMul(RSub(Z(1), traw), RSub(Z(1), traw)))),
              RMul(RAdd(Z(1), ease), traw))
    ELSE RAdd(RMul(ease, RMul(traw, traw)), RMul(RSub(Z(1), ease), traw))

(***************************************************************************)
(* C1.  setFrame(frame), frame >= 0 integer or fractional, kf the keyframe *)
(* containing floor(frame): whenever frame # kf.index, kf.tweened and a    *)
(* next keyframe exists, each of x, y, scaleX, scaleY, skewX, skewY and    *)
(* alpha used for the transform and opacity is kf.v + (next.v - kf.v) * t  *)
(* with t the eased (frame - kf.index) / kf.duration; this includes        *)
(* fractional frames strictly between kf.index and kf.index + 1.           *)
(***************************************************************************)
C1_TweenAtEveryFrame ==
    SetFrameRan =>
        \A i \in Containing(flumpLayerData, Floor(lastOp.arg)) :
            LET kf == flumpLayerData[i]
            IN  (lastOp.arg # Z(kf.index) /\ kf.tweened
                    /\ HasNext(flumpLayerData, i))
                => /\ \A v \in Interpolated :
                        locals[v] = RAdd(kf[v],
                            RMul(RSub(flumpLayerData[i + 1][v], kf[v]),
                                 EasedT(kf.ease, RawT(kf, lastOp.arg))))
                   /\ alpha = locals.alpha
                   /\ _storedMtx = Mtx(locals)

(***************************************************************************)
(* C2.  setFrame(kf.index), for every keyframe kf of the layer, whatever   *)
(* kf.tweened, kf.ease and the next keyframe are, uses kf's own x, y,      *)
(* scaleX, scaleY, skewX, skewY, pivotX, pivotY and alpha verbatim.        *)
(***************************************************************************)
C2_KeyframeVerbatim ==
    SetFrameRan =>
        \A i \in 1 .. Len(flumpLayerData) :
            LET kf == flumpLayerData[i]
            IN  lastOp.arg = Z(kf.index)
                => /\ locals.keyframe = i
                   /\ \A v \in Interpolated \cup Pivots : locals[v] = kf[v]
                   /\ alpha = kf.alpha
                   /\ _storedMtx = Mtx(kf)

\* setFrame ran at the index of a tweened keyframe whose successor differs.
C2_Witness ==
    /\ lastOp.op = "setFrame"
    /\ locals.keyframe # 0
    /\ locals.nextKeyframe # 0
    /\ LET kf == flumpLayerData[locals.keyframe]
           nx == flumpLayerData[locals.nextKeyframe]
       IN  /\ lastOp.arg = Z(kf.index)
           /\ kf.index > 0
           /\ kf.tweened
           /\ kf.ease # Z(0)
           /\ nx.y # kf.y
           /\ locals.y = kf.y

(***************************************************************************)
(* C3.  The interpolation factor t comes from                              *)
(* t_raw = (frame - kf.index) / kf.duration as: t_raw when ease = 0;       *)
(* (-ease) * (1 - (1 - t_raw)^2) + (1 + ease) * t_raw when ease < 0;       *)
(* ease * t_raw^2 + (1 - ease) * t_raw when ease > 0; for every ease in    *)
(* [-1, 1] and every t_raw in [0, 1).                                      *)
(***************************************************************************)
C3_EasedFactor ==
    (SetFrameRan /\ locals.tween) =>
        LET kf == flumpLayerData[locals.keyframe]
            traw == RawT(kf, lastOp.arg)
        IN  (RLe(Z(0), traw) /\ RLt(traw, Z(1)))
            => locals.interped = EasedT(kf.ease, traw)

\* A tween ran with a negative ease strictly inside the span.
C3_Witness ==
    /\ lastOp.op = "setFrame"
    /\ locals.tween
    /\ LET kf == flumpLayerData[locals.keyframe]
           traw == RawT(kf, lastOp.arg)
       IN  /\ RLt(kf.ease, Z(0))
           /\ RLt(Z(0), traw) /\ RLt(traw, Z(1))
           /\ locals.interped # traw

(***************************************************************************)
(* C4.  With kf.ease = 0 and kf.tweened, setFrame(f) for every integer f   *)
(* in (kf.index, kf.index + kf.duration) yields, for every interpolated    *)
(* field v, kf.v + (next.v - kf.v) * (f - kf.index) / kf.duration; the     *)
(* value at t_raw = 1/2 is the midpoint of kf.v and next.v; and for        *)
(* {index 0, x 0, duration 10}, {index 10, x 100}: setFrame(5) gives       *)
(* x = 50, setFrame(0) gives x = 0 and setFrame(9) gives x = 90.           *)
(***************************************************************************)
C4_LinearTween ==
    SetFrameRan =>
        /\ \A i \in 1 .. Len(flumpLayerData) :
            LET kf == flumpLayerData[i]
                f == lastOp.arg
            IN  (/\ kf.ease = Z(0) /\ kf.tweened /\ HasNext(flumpLayerData, i)
                 /\ f[2] = 1
                 /\ kf.index < f[1] /\ f[1] < kf.index + kf.duration)
                => \A v \in Interpolated :
                     LET nv == flumpLayerData[i + 1][v]
                     IN  /\ locals[v] =
                               RAdd(kf[v], RDiv(RMul(RSub(nv, kf[v]),
                                                     Z(f[1] - kf.index)),
                                                Z(kf.duration)))
                         /\ (2 * (f[1] - kf.index) = kf.duration)
                               => locals[v] = RDiv(RAdd(kf[v], nv), Z(2))
        /\ flumpLayerData = LayerLinear =>
            /\ lastOp.arg = Z(5) => locals.x = Z(50)
            /\ lastOp.arg = Z(0) => locals.x = Z(0)
            /\ lastOp.arg = Z(9) => locals.x = Z(90)

\* setFrame(9) ran on the layer {index 0, x 0, duration 10}, {index 10, x 100}.
C4_Witness ==
    /\ lastOp = Op("setFrame", Z(9))
    /\ flumpLayerData = LayerLinear
    /\ locals.x = Z(90)
    /\ _storedMtx.tx = Z(90)

(***************************************************************************)
(* C5.  For every tweened keyframe kf with a next keyframe, every ease of  *)
(* magnitude in [0, 1] and every frame in [kf.index, kf.index +            *)
(* kf.duration), the eased factor lies in [0, 1); every interpolated field *)
(* lies between kf's value (inclusive) and next's value (exclusive), and   *)
(* setFrame(kf.index + kf.duration - 1) never yields next's value for a    *)
(* field in which kf and next differ.                                      *)
(***************************************************************************)
C5_FactorBelowOne ==
    SetFrameRan =>
        \A i \in 1 .. Len(flumpLayerData) :
            LET kf == flumpLayerData[i]
                f == lastOp.arg
            IN  (/\ kf.tweened /\ HasNext(flumpLayerData, i)
                 /\ RLe(Z(kf.index), f) /\ RLt(f, Z(kf.index + kf.duration)))
                => /\ locals.keyframe = i
                   /\ RLe(Z(0), locals.interped) /\ RLt(locals.interped, Z(1))
                   /\ RLe(Z(0), EasedT(kf.ease, RawT(kf, f)))
                   /\ RLt(EasedT(kf.ease, RawT(kf, f)), Z(1))
                   /\ \A v \in Interpolated :
                        LET nv == flumpLayerData[i + 1][v]
                        IN  /\ RBetween(locals[v], kf[v], nv)
                            /\ (f = Z(kf.index + kf.duration - 1) /\ nv # kf[v])
                                  => locals[v] # nv

\* setFrame ran at the last frame of a tweened span with an ease of
\* magnitude 1 and the value is strictly between the two keyframes'.
C5_Witness ==
    /\ lastOp.op = "setFrame"
    /\ locals.tween
    /\ LET kf == flumpLayerData[locals.keyframe]
           nx == flumpLayerData[locals.nextKeyframe]
       IN  /\ lastOp.arg = Z(kf.index + kf.duration - 1)
           /\ kf.ease \in {Z(1), Z(-1)}
           /\ nx.x # kf.x
           /\ locals.x # kf.x
           /\ locals.x # nx.x

(***************************************************************************)
(* C6.  setFrame: when the located keyframe's ref is set and differs from  *)
(* the active ref, the active child becomes the child cached under that    *)
(* ref, the kind becomes that child's kind, and a nested movie is reset to *)
(* frame 0; when the ref equals the active ref, the active child and kind  *)
(* are unchanged and the child is not reset.                               *)
(***************************************************************************)
C6_SymbolSwitch ==
    [][(lastOp'.op = "setFrame" /\ locals'.keyframe # 0
           /\ RefSet(flumpLayerData[locals'.keyframe]))
       => LET ref == flumpLayerData[locals'.keyframe].ref
          IN  IF ref # _keyframeRef
              THEN /\ _keyframeRef' = ref
                   /\ ActiveChild' = _symbols[ref].ref
                   /\ _symbolType' = _symbols[ref].type
                   /\ _symbols[ref].type = DISPLAYOBJECT
                        => /\ childFrame'[ref] = 0
                           /\ calls' = <<Call("reset", ref, 0)>>
              ELSE /\ _keyframeRef' = _keyframeRef
                   /\ ActiveChild' = ActiveChild
                   /\ _symbolType' = _symbolType
                   /\ childFrame' = childFrame
                   /\ calls' = <<>>]_vars

\* setFrame switched from the texture back to the nested movie and reset it.
C6_Witness ==
    /\ lastOp.op = "setFrame"
    /\ _symbolTexture = "tex"
    /\ _keyframeRef = "ball"
    /\ ActiveChild = "ball"
    /\ _symbolType = DISPLAYOBJECT
    /\ childFrame["ball"] = 0
    /\ calls = <<Call("reset", "ball", 0)>>

(***************************************************************************)
(* C7.  setFrame: when the located keyframe's ref is unset (null or -1)    *)
(* the layer has no active child afterwards and a following draw delegates *)
(* to no child; with ref "ball" at index 0 and ref null at index 5,        *)
(* setFrame(2) leaves an active child and setFrame(5) leaves none.         *)
(***************************************************************************)
C7_UnsetRefClears ==
    /\ (SetFrameRan /\ locals.keyframe # 0
           /\ ~RefSet(flumpLayerData[locals.keyframe]))
       => /\ ActiveChild = NoChild
          /\ _symbolType = UNKNOWN
          /\ DrawCalls(_symbolType, _symbolMovie, _symbolTexture) = <<>>
    /\ (lastOp.op = "draw" /\ locals.keyframe # 0
           /\ ~RefSet(flumpLayerData[locals.keyframe]))
       => calls = <<>>
    /\ (SetFrameRan /\ flumpLayerData = LayerRef(R(1, 2)))
       => /\ lastOp.arg = Z(2) => ActiveChild = "ball"
          /\ lastOp.arg = Z(5) => ActiveChild = NoChild

\* A draw followed setFrame at the keyframe without ref, after the layer
\* had an active nested movie.
C7_Witness ==
    /\ lastOp.op = "draw"
    /\ flumpLayerData = LayerRef(R(1, 2))
    /\ locals.keyframe = 2
    /\ _symbolMovie = "ball"
    /\ ActiveChild = NoChild
    /\ calls = <<>>

(***************************************************************************)
(* C8.  A layer whose layer data has zero keyframes never has an active    *)
(* child: after construction and after any setFrame, onTick, reset and     *)
(* draw its kind is none, no child is created, ticked or drawn.            *)
(***************************************************************************)
C8_EmptyLayerInactive ==
    Len(flumpLayerData) = 0
    => /\ _symbolType = UNKNOWN
       /\ ActiveChild = NoChild
       /\ DOMAIN _symbols = {}
       /\ DOMAIN childFrame = {}
       /\ calls = <<>>

\* A draw ran twice in a row on a constructed layer without keyframes.
C8_Witness ==
    /\ Len(flumpLayerData) = 0
    /\ constructed
    /\ lastOp.op = "draw"
    /\ repeated
    /\ calls = <<>>

(***************************************************************************)
(* C9.  Idempotence of setFrame: from any reachable state and for every    *)
(* frame f, a second setFrame(f) in a row leaves the cached transform,     *)
(* alpha, visible, active ref, active child and kind as the first call     *)
(* left them, and does not reset the active child.                         *)
(***************************************************************************)
C9_SetFrameIdempotent ==
    [][(SetFrameRan /\ lastOp'.op = "setFrame" /\ lastOp'.arg = lastOp.arg)
       => /\ _storedMtx' = _storedMtx
          /\ alpha' = alpha
          /\ visible' = visible
          /\ _keyframeRef' = _keyframeRef
          /\ ActiveChild' = ActiveChild
          /\ _symbolType' = _symbolType
          /\ childFrame' = childFrame
          /\ calls' = <<>>]_vars

\* The same setFrame ran twice in a row, inside a tween, on a layer whose
\* nested movie had advanced.
C9_Witness ==
    /\ lastOp.op = "setFrame"
    /\ repeated
    /\ locals.tween
    /\ _symbolType = DISPLAYOBJECT
    /\ childFrame[_symbolMovie] > 0

(***************************************************************************)
(* C10 (as stated).  draw returns whether anything was drawn: true when it *)
(* delegated to an active child and false when the layer has none.         *)
(***************************************************************************)
C10_ReturnsWhetherDrawn ==
    lastOp.op = "draw" => (ret <=> calls # <<>>)

(***************************************************************************)
(* C10 (amended).  draw returns true in every case: when it delegated to   *)
(* an active child and also when the layer has no active child.            *)
(***************************************************************************)
C10_DrawReturnsTrue ==
    lastOp.op = "draw"
    => /\ ret = TRUE
       /\ calls = DrawCalls(_symbolType, _symbolMovie, _symbolTexture)

\* A draw on a layer without active child returned true.
C10_Witness ==
    /\ lastOp.op = "draw"
    /\ locals.keyframe # 0
    /\ ActiveChild = NoChild
    /\ calls = <<>>
    /\ ret = TRUE

\* The ref of the keyframe the last setFrame located when it names a
\* symbol; none when the keyframe's ref is unset or no keyframe was found.
LocatedRef ==
    IF locals.keyframe # 0 /\ RefSet(flumpLayerData[locals.keyframe])
    THEN flumpLayerData[locals.keyframe].ref
    ELSE NoChild

(***************************************************************************)
(* C11.  draw is a no-op when there is no active child, and otherwise      *)
(* calls draw exactly once on the currently active child and on no other   *)
(* child: after any sequence of setFrame calls that switched the layer     *)
(* between movie, texture and no symbol, a previously active child is      *)
(* never the one drawn.                                                    *)
(***************************************************************************)
C11_DrawsActiveChildOnly ==
    (constructed /\ lastOp.op = "draw") =>
        IF LocatedRef = NoChild
        THEN calls = <<>>
        ELSE /\ calls = <<Call("draw", LocatedRef, 0)>>
             /\ LocatedRef = _keyframeRef
             /\ LocatedRef \in DOMAIN _symbols

\* A draw ran while the texture was active and a nested movie had been
\* active before it.
C11_Witness ==
    /\ lastOp.op = "draw"
    /\ _symbolMovie = "ball"
    /\ LocatedRef = "tex"
    /\ calls = <<Call("draw", "tex", 0)>>

(***************************************************************************)
(* C12.  onTick(delta) forwards the tick exactly once, with the same       *)
(* delta, to the active child when that child is a nested movie, and       *)
(* forwards nothing when the active child is a texture or absent; so while *)
(* the layer keeps the same nested movie active, three parent ticks with   *)
(* delta = 1 deliver three ticks with delta = 1 to the nested movie and to *)
(* no previously active movie.                                             *)
(***************************************************************************)
C12_TickForwarded ==
    [][(constructed /\ lastOp'.op = "onTick")
       => LET delta == lastOp'.arg[1]
          IN  IF LocatedRef # NoChild
                 /\ _symbols[LocatedRef].type = DISPLAYOBJECT
              THEN /\ calls' = <<Call("onTick", LocatedRef, delta)>>
                   /\ childFrame' =
                         [childFrame EXCEPT ![LocatedRef] = @ + delta]
              ELSE /\ calls' = <<>>
                   /\ childFrame' = childFrame]_vars

\* The third tick with delta = 1 in a row reached the active nested movie,
\* whose cursor is 3, while the movie that was active before kept its own.
C12_Witness ==
    /\ lastOp = Op("onTick", Z(1))
    /\ repeated
    /\ flumpLayerData = LayerMixed(R(-1, 2))
    /\ LocatedRef = "ball"
    /\ childFrame["ball"] = 3
    /\ childFrame["box"] = 1
    /\ calls = <<Call("onTick", "ball", 1)>>

(***************************************************************************)
(* C13.  After construction, the layer's own state (cached transform,      *)
(* alpha, visible, active ref, active child, kind and the ref-to-child     *)
(* mapping) is changed only by setFrame: onTick, reset and draw leave all  *)
(* of it unchanged.                                                        *)
(***************************************************************************)
C13_OnlySetFrameMutates ==
    [][(constructed /\ lastOp'.op \in {"onTick", "reset", "draw"})
       => /\ _storedMtx' = _storedMtx
          /\ alpha' = alpha
          /\ visible' = visible
          /\ _keyframeRef' = _keyframeRef
          /\ _symbolType' = _symbolType
          /\ _symbolMovie' = _symbolMovie
          /\ _symbolTexture' = _symbolTexture
          /\ ActiveChild' = ActiveChild
          /\ _symbols' = _symbols]_vars

\* A reset reached the active nested movie of a layer whose cached
\* transform and alpha are not the initial ones.
C13_Witness ==
    /\ lastOp.op = "reset"
    /\ calls = <<Call("reset", _symbolMovie, 0)>>
    /\ ActiveChild = "ball"
    /\ childFrame["ball"] = 0
    /\ locals.tween
    /\ _storedMtx.tx # Z(0)
    /\ alpha # Z(1)

\* The fields that place a keyframe apart from its pivot.
Placement == {"x", "y", "scaleX", "scaleY", "skewX", "skewY"}

\* Two keyframes differ in their pivot and in no field of the placement.
PivotOnly(kf1, kf2) ==
    /\ \A v \in Placement : kf1[v] = kf2[v]
    /\ \E v \in Pivots : kf1[v] # kf2[v]

\* The translation of the matrix m for the position (x, y) of kf and kf's
\* pivot.
PivotTranslation(m, kf) ==
    /\ m.tx = RSub(kf.x, RAdd(RMul(kf.pivotX, m.a), RMul(kf.pivotY, m.c)))
    /\ m.ty = RSub(kf.y, RAdd(RMul(kf.pivotX, m.b), RMul(kf.pivotY, m.d)))

(***************************************************************************)
(* C14.  Pivot invariant of setFrame: for two keyframes that differ only   *)
(* in pivotX/pivotY (same x, y, scale, skew), the cached a, b, c, d are    *)
(* identical and tx, ty differ according to                                *)
(* tx = x - (pivotX*a + pivotY*c), ty = y - (pivotX*b + pivotY*d).         *)
(***************************************************************************)
C14_PivotInvariant ==
    [][(/\ SetFrameRan /\ lastOp'.op = "setFrame"
        /\ locals.keyframe # 0 /\ locals'.keyframe # 0
        /\ PivotOnly(flumpLayerData[locals.keyframe],
                     flumpLayerData[locals'.keyframe]))
       => /\ _storedMtx'.a = _storedMtx.a
          /\ _storedMtx'.b = _storedMtx.b
          /\ _storedMtx'.c = _storedMtx.c
          /\ _storedMtx'.d = _storedMtx.d
          /\ PivotTranslation(_storedMtx, flumpLayerData[locals.keyframe])
          /\ PivotTranslation(_storedMtx', flumpLayerData[locals'.keyframe])
       ]_vars

\* setFrame ran on a scaled and skewed keyframe with a pivot, after it ran
\* on one with another pivot, and the translation is not the position.
C14_Witness ==
    /\ lastOp.op = "setFrame"
    /\ flumpLayerData = LayerPivot
    /\ locals.keyframe = 2
    /\ _storedMtx.a = R(7, 4)
    /\ _storedMtx.c = Z(-3)
    /\ _storedMtx.tx = R(29, 2)
    /\ _storedMtx.tx # locals.x

\* The value of field v that the last setFrame used: interpolated towards
\* the next keyframe when the tween ran, the located keyframe's otherwise.
Used(v) ==
    LET kf == flumpLayerData[locals.keyframe]
    IN  IF locals.tween
        THEN RAdd(kf[v], RMul(RSub(flumpLayerData[locals.nextKeyframe][v],
                                   kf[v]),
                              locals.interped))
        ELSE kf[v]

(***************************************************************************)
(* C15.  setFrame stores a = scaleX*cosY, b = scaleX*sinY,                 *)
(* c = -scaleY*sinX, d = scaleY*cosX, tx = x - (pivotX*a + pivotY*c),      *)
(* ty = y - (pivotX*b + pivotY*d), using the interpolated x, y, scale and  *)
(* skew but always kf's pivot, never the next keyframe's pivot; with       *)
(* skewX = skewY = 0 this gives a = scaleX, b = c = 0, d = scaleY,         *)
(* tx = x - pivotX*scaleX, ty = y - pivotY*scaleY.                         *)
(***************************************************************************)
C15_StoredMatrix ==
    (SetFrameRan /\ locals.keyframe # 0) =>
        LET kf == flumpLayerData[locals.keyframe]
            m == _storedMtx
        IN  /\ m.a = RMul(Used("scaleX"), Cos(Used("skewY")))
            /\ m.b = RMul(Used("scaleX"), Sin(Used("skewY")))
            /\ m.c = RMul(RNeg(Used("scaleY")), Sin(Used("skewX")))
            /\ m.d = RMul(Used("scaleY"), Cos(Used("skewX")))
            /\ m.tx = RSub(Used("x"), RAdd(RMul(kf.pivotX, m.a),
                                           RMul(kf.pivotY, m.c)))
            /\ m.ty = RSub(Used("y"), RAdd(RMul(kf.pivotX, m.b),
                                           RMul(kf.pivotY, m.d)))
            /\ (Used("skewX") = Z(0) /\ Used("skewY") = Z(0))
               => /\ m.a = Used("scaleX")
                  /\ m.b = Z(0)
                  /\ m.c = Z(0)
                  /\ m.d = Used("scaleY")
                  /\ m.tx = RSub(Used("x"), RMul(kf.pivotX, Used("scaleX")))
                  /\ m.ty = RSub(Used("y"), RMul(kf.pivotY, Used("scaleY")))

\* A tween ran between two keyframes of different pivots, with skew, and
\* the translation differs from the one the next keyframe's pivot gives.
C15_Witness ==
    /\ lastOp.op = "setFrame"
    /\ locals.tween
    /\ IsFinite(locals.interped)
    /\ LET kf == flumpLayerData[locals.keyframe]
           nx == flumpLayerData[locals.nextKeyframe]
           m == _storedMtx
       IN  /\ kf.pivotX # nx.pivotX
           /\ kf.pivotY # nx.pivotY
           /\ Used("skewX") # Z(0)
           /\ m.c # Z(0)
           /\ m.tx # RSub(Used("x"), RAdd(RMul(nx.pivotX, m.a),
                                          RMul(nx.pivotY, m.c)))

(***************************************************************************)
(* C16.  After setFrame(frame) with a located keyframe kf, the layer's     *)
(* visible flag equals kf.visible for every frame of kf's span (it is      *)
(* never taken from or blended with the next keyframe), and the layer's    *)
(* alpha equals the interpolated alpha (kf.alpha when no tween applies).   *)
(***************************************************************************)
C16_VisibleDiscreteAlphaTweened ==
    (SetFrameRan /\ locals.keyframe # 0) =>
        /\ visible = flumpLayerData[locals.keyframe].visible
        /\ \A i \in Containing(flumpLayerData, Floor(lastOp.arg)) :
              visible = flumpLayerData[i].visible
        /\ alpha = Used("alpha")
        /\ ~locals.tween => alpha = flumpLayerData[locals.keyframe].alpha

\* setFrame ran inside the tween from a visible keyframe to an invisible
\* one of another alpha: the layer is visible, its alpha is in between.
C16_Witness ==
    /\ lastOp.op = "setFrame"
    /\ locals.tween
    /\ LET kf == flumpLayerData[locals.keyframe]
           nx == flumpLayerData[locals.nextKeyframe]
       IN  /\ kf.visible
           /\ ~nx.visible
           /\ RLt(Z(kf.index + kf.duration - 1), lastOp.arg)
           /\ visible
           /\ RLt(nx.alpha, alpha)
           /\ RLt(alpha, kf.alpha)

\* The frame the layer's keyframes end at.
EndOfMovie(datas) == datas[Len(datas)].index + datas[Len(datas)].duration

\* The frames from keyframe i to the next labelled keyframe, or to the end
\* of the movie when no labelled keyframe follows.
LabelSpan(datas, i) ==
    LET later == {j \in (i + 1) .. Len(datas) : datas[j].label # NoLabel}
    IN  IF later = {} THEN EndOfMovie(datas) - datas[i].index
        ELSE datas[CHOOSE j \in later : \A k \in later : j <= k].index
                 - datas[i].index

(***************************************************************************)
(* C17.  For every keyframe with a non-null label, constructing the layer  *)
(* registers in the movie's label map an entry whose start frame is that   *)
(* keyframe's index and whose duration is the span until the next label or *)
(* the end of the movie (not merely the labelled keyframe's own duration). *)
(***************************************************************************)
C17_LabelSpanUntilNextLabel ==
    constructed =>
        \A i \in 1 .. Len(flumpLayerData) :
            LET kf == flumpLayerData[i]
            IN  kf.label # NoLabel
                => /\ kf.label \in DOMAIN labels
                   /\ labels[kf.label].index = kf.index
                   /\ labels[kf.label].duration = LabelSpan(flumpLayerData, i)

\* The distinct refs, other than null and -1, of the layer's keyframes.
DistinctRefs ==
    {flumpLayerData[i].ref : i \in {j \in 1 .. Len(flumpLayerData) :
                                       RefSet(flumpLayerData[j])}}

\* The positions in the last operation's calls of the factory calls for ref.
FactoryCalls(ref) ==
    {k \in 1 .. Len(calls) : calls[k] = Call("createSymbol", ref, 0)}

Validated(datas) ==
    /\ \A i \in 1 .. Len(datas) :
          /\ datas[i].index >= 0
          /\ datas[i].duration >= 0
          /\ RefSet(datas[i]) => datas[i].ref \in LibrarySymbols
    /\ \A i \in 1 .. (Len(datas) - 1) :
          /\ datas[i].index < datas[i + 1].index
          /\ datas[i].index + datas[i].duration <= datas[i + 1].index

MouseEvents == {"mouseup", "mousemove", "mousedown"}

\* The listeners registered for the event name, on any target.
ListenersFor(name) == {l \in listeners : l.name = name}

(***************************************************************************)
(* C20.  Stage.enableDOMEvents: after any sequence of                      *)
(* enableDOMEvents(true) and enableDOMEvents(false) calls on a stage with  *)
(* a fixed canvas, each of the mouseup, mousemove and mousedown listeners  *)
(* is registered at most once (repeated enables do not add duplicates),    *)
(* and after enableDOMEvents(false) none of the listeners the stage added  *)
(* remains registered.  The listeners are those enableDOMEvents adds; the  *)
(* property holds as well when the canvas is replaced in between, since    *)
(* each listener is removed from the target it was added to.               *)
(***************************************************************************)
C20_ListenersOnceAndRemoved ==
    stageBuilt =>
        /\ \A name \in MouseEvents : Cardinality(ListenersFor(name)) <= 1
        /\ (stageOp = StageOp("enableDOMEvents", TRUE) /\ canvas # NoCanvas)
           => \A name \in MouseEvents : Cardinality(ListenersFor(name)) = 1
        /\ stageOp = StageOp("enableDOMEvents", FALSE)
           => /\ \A name \in MouseEvents : ListenersFor(name) = {}
              /\ _eventListeners = <<>>

\* enableDOMEvents(true) ran twice in a row, after the stage's first
\* listeners had been removed and new ones added: three are registered.
C20_Witness ==
    /\ stageOp = StageOp("enableDOMEvents", TRUE)
    /\ stageRepeated
    /\ \A name \in MouseEvents : Cardinality(ListenersFor(name)) = 1
    /\ \E l \in ListenersFor("mousedown") : l.fn.made >= 2 /\ l.target = canvas

\* The positions in the last operation's effects of the effect named fn.
At(fn) == {k \in 1 .. Len(effects) : effects[k].fn = fn}

\* Every effect named f comes before every effect named g.
Before(f, g) == \A j \in At(f), k \in At(g) : j < k

(***************************************************************************)
(* C21.  Stage.update with tickOnUpdate true: the tickend signal is        *)
(* emitted on each update immediately after the tick has been propagated   *)
(* through the display list and before the drawstart signal; with          *)
(* tickOnUpdate false no tick is propagated and tickend is not emitted.    *)
(***************************************************************************)
C21_TickendOnUpdate ==
    (stageOp.op = "update" /\ canvas # NoCanvas) =>
        IF tickOnUpdate
        THEN /\ Cardinality(At("onTick")) = 1
             /\ Cardinality(At("tickendSignal.emit")) = 1
             /\ \A k \in At("onTick") : (k + 1) \in At("tickendSignal.emit")
             /\ Before("tickendSignal.emit", "drawstartSignal.emit")
        ELSE /\ At("onTick") = {}
             /\ At("tickendSignal.emit") = {}

(***************************************************************************)
(* C22.  Every Stage.update on a stage that has a canvas emits drawstart   *)
(* exactly once before the canvas is cleared and the display list drawn,   *)
(* and drawend exactly once after the draw and context restore, in the     *)
(* order [tick] -> drawstart -> clear -> draw -> drawend; an update on a   *)
(* stage without a canvas ticks nothing, emits no signal and draws         *)
(* nothing.                                                                *)
(***************************************************************************)
C22_DrawSignalsInOrder ==
    stageOp.op = "update" =>
        IF canvas = NoCanvas THEN effects = <<>>
        ELSE /\ Cardinality(At("drawstartSignal.emit")) = 1
             /\ Cardinality(At("drawendSignal.emit")) = 1
             /\ Cardinality(At("draw")) = 1
             /\ Cardinality(At("ctx.restore")) = 1
             /\ Cardinality(At("ctx.clearRect")) = (IF autoClear THEN 1 ELSE 0)
             /\ Cardinality(At("onTick")) = (IF tickOnUpdate THEN 1 ELSE 0)
             /\ Before("onTick", "drawstartSignal.emit")
             /\ Before("drawstartSignal.emit", "ctx.clearRect")
             /\ Before("drawstartSignal.emit", "draw")
             /\ Before("ctx.clearRect", "draw")
             /\ Before("draw", "ctx.restore")
             /\ Before("ctx.restore", "drawendSignal.emit")
             /\ At("drawendSignal.emit") = {Len(effects)}

\* An update ticked, cleared the draw rectangle, drew and emitted both
\* signals, on a stage whose canvas had been replaced.
C22_Witness ==
    /\ stageOp.op = "update"
    /\ canvas = "another"
    /\ tickOnUpdate /\ autoClear /\ drawRect
    /\ effects[1].fn = "onTick"
    /\ effects[2].fn = "drawstartSignal.emit"
    /\ effects[4] = Cleared("drawRect")
    /\ effects[Len(effects)].fn = "drawendSignal.emit"

\* The last operation was a pointer event that moved or pressed a pointer.
PointerOps == {"_handlePointerMove", "_handlePointerDown"}

\* The point lies within the canvas bounds: 0 <= x <= width - 1 and
\* 0 <= y <= height - 1.
WithinCanvas(x, y) ==
    /\ RLe(Z(0), x) /\ RLe(x, Z(CanvasWidth - 1))
    /\ RLe(Z(0), y) /\ RLe(y, Z(CanvasHeight - 1))

\* Where the pointer was last seen inside the canvas: the position its
\* PointerData holds, (0, 0) for a pointer the stage has not seen yet.
LastInside(id) ==
    IF id \in DOMAIN _pointerData
    THEN <<_pointerData[id].x, _pointerData[id].y>>
    ELSE <<Z(0), Z(0)>>

(***************************************************************************)
(* C23.  Stage mouse position: with mouseMoveOutside false, a move or down *)
(* event of the primary pointer that is inside the canvas bounds sets      *)
(* mouseX and mouseY to its coordinates and mouseInBounds to true, and one *)
(* that is outside sets mouseInBounds to false and leaves mouseX and       *)
(* mouseY where that pointer was last seen inside, so that mouseX and      *)
(* mouseY are those of its most recent event inside the bounds; mouseX and *)
(* mouseY always stay within the canvas bounds.                            *)
(***************************************************************************)
C23_MousePosition ==
    [][/\ WithinCanvas(mouseX', mouseY')
       /\ (/\ stageOp'.op \in PointerOps
           /\ canvas # NoCanvas
           /\ ~mouseMoveOutside
           /\ domEvent'.id = _primaryPointerID')
          => IF WithinCanvas(CanvasX(domEvent'.pageX),
                             CanvasY(domEvent'.pageY))
             THEN /\ mouseX' = CanvasX(domEvent'.pageX)
                  /\ mouseY' = CanvasY(domEvent'.pageY)
                  /\ mouseInBounds'
             ELSE /\ <<mouseX', mouseY'>> = LastInside(domEvent'.id)
                  /\ ~mouseInBounds']_vars

\* The primary pointer, last seen inside the canvas away from its origin,
\* has moved outside the bounds and mouseX, mouseY are still where it was.
C23_Witness ==
    /\ stageOp.op = "_handlePointerMove"
    /\ canvas # NoCanvas
    /\ ~mouseMoveOutside
    /\ domEvent.id = _primaryPointerID
    /\ ~WithinCanvas(CanvasX(domEvent.pageX), CanvasY(domEvent.pageY))
    /\ mouseX # Z(0)
    /\ mouseY # Z(0)
    /\ ~mouseInBounds

\* The pointer's PointerData says it is inside the canvas bounds; a pointer
\* the stage has not seen is not.
InsideIn(data, id) == id \in DOMAIN data /\ data[id].inBounds

\* The positions in a sequence of dispatched events of those of a type.
DispatchesIn(events, type) ==
    {k \in 1 .. Len(events) : events[k].type = type}

\* What the claim says of a move of pointer id that found the pointer inside
\* the bounds or not (before), left it inside or not (after) and dispatched
\* the events; everyMove tells whether mouseMoveOutside obliges this move to
\* dispatch stagemousemove.
MoveDispatches(id, before, after, events, outside, everyMove) ==
    /\ (~outside /\ ~before /\ ~after)
       => \A type \in {"mouseenter", "mouseleave", "stagemousemove",
                       "pressmove"} : DispatchesIn(events, type) = {}
    /\ everyMove => Cardinality(DispatchesIn(events, "stagemousemove")) = 1
    /\ id = MousePointer
       => /\ Cardinality(DispatchesIn(events, "mouseenter"))
                 = (IF ~before /\ after THEN 1 ELSE 0)
          /\ Cardinality(DispatchesIn(events, "mouseleave"))
                 = (IF before /\ ~after THEN 1 ELSE 0)
          /\ (before # after) => DispatchesIn(events, "stagemousemove") # {}
          /\ \A j \in DispatchesIn(events, "mouseenter")
                          \union DispatchesIn(events, "mouseleave"),
                k \in DispatchesIn(events, "stagemousemove") : j < k

C25_OnePollingInterval ==
    /\ Cardinality(intervals) <= 1
    /\ stageOp.op = "enableMouseOver"
       => LET f == IF mouseOverCall.given THEN mouseOverCall.frequency
                   ELSE Z(20)
          IN  IF RLe(f, Z(0))
              THEN /\ intervals = {}
                   /\ _mouseOverIntervalID = NoInterval
              ELSE \E iv \in intervals :
                      /\ intervals = {iv}
                      /\ iv.id = _mouseOverIntervalID
                      /\ iv.period
                             = (IF RLt(f, Z(50)) THEN RDiv(Z(1000), f)
                                ELSE Z(20))

\* A third interval replaced the second: polling at 60 is capped to 50 per
\* second, a period of 20 ms.
C25_Witness ==
    /\ stageOp.op = "enableMouseOver"
    /\ mouseOverCall = MouseOverCall(TRUE, Z(60))
    /\ timers > 1
    /\ intervals = {Interval(timers, Z(20))}

\* The next the claim gives an animation: its own name for true and
\* undefined, null for false, the named animation otherwise; and null in
\* place of its own name when it has fewer than two frames.
ClaimedNext(def, name) ==
    LET next == IF def.next \in {"true", Undefined} THEN name
                ELSE IF def.next = "false" THEN NullRef
                ELSE def.next
    IN  IF Len(AnimationFrames(def)) < 2 /\ next = name THEN NullRef
        ELSE next

\* The speed the claim gives it: 1 when absent or 0.
ClaimedSpeed(def) == IF def.speedGiven /\ def.speed # 0 THEN def.speed ELSE 1

\* The k-th animation of the data was resolved as the claim says.
ResolvedAsClaimed(k) ==
    LET name == sheetData.animations[k].name
        def == sheetData.animations[k].def
    IN  /\ name \in DOMAIN _data
        /\ _data[name].next = ClaimedNext(def, name)
        /\ _data[name].speed = ClaimedSpeed(def)

(***************************************************************************)
(* C26.  SpriteSheet.initialize resolves the next of each animation: its   *)
(* own name for true or undefined, null for false, the named animation for *)
(* a string, and null for an animation of fewer than two frames whose next *)
(* is its own name; this for each form of definition, whatever the order   *)
(* of the definitions; speed is 1 when absent or 0.                        *)
(***************************************************************************)
C26_NextResolved ==
    sheetBuilt
    => /\ sheetError = NoError
       /\ \A k \in 1 .. Len(sheetData.animations) : ResolvedAsClaimed(k)

\* Every animation that is not defined as [frame] is resolved as the claim
\* says, where initialize got as far as that animation.
C26_OtherFormsResolved ==
    sheetBuilt
    => \A k \in 1 .. Len(sheetData.animations) :
          (/\ sheetData.animations[k].def.form # "[frame]"
           /\ sheetData.animations[k].name \in DOMAIN _data)
          => ResolvedAsClaimed(k)

\* A [frame] animation defined after one of three frames loops on itself,
\* where the same two definitions in the other order would stop it.
C26_OrderMatters ==
    /\ sheetBuilt
    /\ sheetError = NoError
    /\ Len(sheetData.animations) = 2
    /\ sheetData.animations[1].def.form = "[start,end,next,speed]"
    /\ Len(AnimationFrames(sheetData.animations[1].def)) = 3
    /\ sheetData.animations[2].def.form = "[frame]"
    /\ _data[sheetData.animations[2].name].next
           = sheetData.animations[2].name

\* The images of the data that had not loaded when the sheet was
\* initialised: images that are not complete, and URLs.
NotLoadedAtStart ==
    {i \in 1 .. Len(sheetData.images) :
        sheetData.images[i] \in {"img loading", "url"}}

(***************************************************************************)
(* C27.  SpriteSheet image loading: complete is true exactly when          *)
(* loadCount is 0; the "complete" event has been dispatched once when the  *)
(* last of the images that were pending has loaded, and not before, and    *)
(* never if all images had loaded at initialization; loadCount is never    *)
(* negative.                                                               *)
(***************************************************************************)
C27_CompleteWhenLoaded ==
    /\ complete <=> (loadCount = 0)
    /\ loadCount >= 0
    /\ completeEvents
           = (IF sheetBuilt /\ NotLoadedAtStart # {} /\ onload = {}
              THEN 1 ELSE 0)

\* Two images were pending, both have loaded, and the one event was
\* dispatched.
C27_Witness ==
    /\ sheetBuilt
    /\ Cardinality(NotLoadedAtStart) = 2
    /\ sheetOp = "img.onload"
    /\ loadCount = 0
    /\ complete
    /\ completeEvents = 1

C29_NestedMovieContinuity ==
    [][/\ (constructed /\ lastOp'.op = "setFrame" /\ LocatedRef' # NoChild
              /\ _symbols[LocatedRef'].type = DISPLAYOBJECT)
          => IF LocatedRef = LocatedRef'
             THEN /\ childFrame' = childFrame
                  /\ calls' = <<>>
             ELSE /\ childFrame' = [childFrame EXCEPT ![LocatedRef'] = 0]
                  /\ calls' = <<Call("reset", LocatedRef', 0)>>
       /\ (~constructed /\ constructed' /\ LocatedRef' # NoChild
              /\ _symbols'[LocatedRef'].type = DISPLAYOBJECT)
          => childFrame'[LocatedRef'] = 0]_vars

\* On the layer whose two keyframes both carry "ball", setFrame has crossed
\* into the second keyframe and the movie, activated at construction and
\* ticked since, has kept its cursor.
C29_Witness ==
    /\ lastOp = Op("setFrame", Z(10))
    /\ flumpLayerData = LayerLinear
    /\ locals.keyframe = 2
    /\ childFrame["ball"] > 0
    /\ calls = <<>>

(***************************************************************************)
(* C30.  setFrame(frame) with frame in the span of a keyframe kf that is   *)
(* not tweened, or with frame >= kf.index for a tweened last keyframe (it  *)
(* has no next keyframe), uses kf's raw x, y, scaleX, scaleY, skewX,       *)
(* skewY, pivotX, pivotY and alpha, at whole and fractional frames alike:  *)
(* no value moves towards another keyframe's.                              *)
(***************************************************************************)
C30_UntweenedHolds ==
    SetFrameRan =>
        \A i \in Containing(flumpLayerData, Floor(lastOp.arg)) :
            LET kf == flumpLayerData[i]
            IN  (RLe(Z(kf.index), lastOp.arg)
                    /\ (~kf.tweened \/ ~HasNext(flumpLayerData, i)))
                => /\ locals.keyframe = i
                   /\ ~locals.tween
                   /\ \A v \in Interpolated \cup Pivots : locals[v] = kf[v]
                   /\ alpha = kf.alpha
                   /\ _storedMtx = Mtx(kf)

\* setFrame ran strictly inside the span of an untweened keyframe whose
\* successor has another position, or past the index of a tweened last
\* keyframe whose predecessor has another position.
C30_Witness ==
    /\ lastOp.op = "setFrame"
    /\ locals.keyframe # 0
    /\ LET kf == flumpLayerData[locals.keyframe]
       IN  /\ RLt(Z(kf.index), lastOp.arg)
           /\ \/ /\ ~kf.tweened
                 /\ locals.nextKeyframe # 0
                 /\ flumpLayerData[locals.nextKeyframe].x # kf.x
                 /\ lastOp.arg[2] # 1
              \/ /\ kf.tweened
                 /\ locals.nextKeyframe = 0
                 /\ locals.keyframe > 1

\* The positions of the keyframes that cover frame 0: those that start at
\* or before it while the next keyframe, if any, starts after it (a span is
\* told by the next keyframe's index, so a keyframe of duration 0 at index
\* 0 covers frame 0 too).
CoveringZero(datas) ==
    {i \in 1 .. Len(datas) :
        /\ datas[i].index <= 0
        /\ (HasNext(datas, i) => datas[i + 1].index > 0)}

\* The layer is in the state setFrame(0) produces: the matrix, the opacity,
\* the visibility and the active child are those of the keyframe covering
\* frame 0, an active nested movie stands at frame 0, and a layer without
\* such a keyframe has no active child and keeps its initial fields.
AtFrameZero ==
    IF CoveringZero(flumpLayerData) = {}
    THEN /\ locals = NoLocals
         /\ ActiveChild = NoChild
         /\ _storedMtx = [a |-> Z(1), b |-> Z(0), c |-> Z(0), d |-> Z(1),
                          tx |-> Z(0), ty |-> Z(0)]
         /\ alpha = Z(1)
         /\ visible = TRUE
    ELSE \A i \in CoveringZero(flumpLayerData) :
             LET kf == flumpLayerData[i]
             IN  /\ locals.keyframe = i
                 /\ _storedMtx = Mtx(kf)
                 /\ alpha = kf.alpha
                 /\ visible = kf.visible
                 /\ ActiveChild = IF RefSet(kf) THEN kf.ref ELSE NoChild
                 /\ (RefSet(kf) /\ _symbolType = DISPLAYOBJECT)
                    => childFrame[kf.ref] = 0

(***************************************************************************)
(* C31.  Constructing a FlumpMovieLayer leaves it in exactly the state     *)
(* setFrame(0) produces: the cached transform, alpha, visible and the      *)
(* active child are those of the keyframe covering frame 0, a nested movie *)
(* active at frame 0 has been reset (the constructor's last call on it),   *)
(* and a setFrame(0) that follows the constructor changes no field.        *)
(***************************************************************************)
C31_ConstructedAtFrameZero ==
    [][/\ (~constructed /\ constructed')
          => /\ AtFrameZero'
             /\ _symbolType' = DISPLAYOBJECT
                => calls'[Len(calls')] = Call("reset", _symbolMovie', 0)
       /\ (lastOp.op = "new FlumpMovieLayer" /\ lastOp' = Op("setFrame", Z(0)))
          => /\ Fields' = Fields
             /\ locals' = locals]_vars

\* The constructor ran over a layer whose first keyframe is tweened towards a
\* keyframe with another position and activates a nested movie.
C31_Witness ==
    /\ lastOp.op = "new FlumpMovieLayer"
    /\ locals.keyframe # 0
    /\ locals.nextKeyframe # 0
    /\ flumpLayerData[locals.keyframe].tweened
    /\ flumpLayerData[locals.nextKeyframe].x # flumpLayerData[locals.keyframe].x
    /\ _symbolType = DISPLAYOBJECT
    /\ calls[Len(calls)] = Call("reset", _symbolMovie, 0)

\* The promises load() has returned so far.
Promises == 1 .. Len(promises)

(***************************************************************************)
(* C32.  load() on a sheet initialized from data with at least one         *)
(* animation: its promise is resolved exactly once, by the poll that finds *)
(* every pending image loaded, which sets _hasLoaded and stops the polling *)
(* in the same step; it is not resolved while an image is pending; a       *)
(* load() called once _hasLoaded is set returns a promise that is resolved *)
(* at once, after onProgress(1) if onProgress was given; and with every    *)
(* image firing onload once, every promise is eventually resolved.         *)
(***************************************************************************)
C32_LoadResolves ==
    /\ [][/\ \A p \in Promises :
                /\ promises'[p].resolved <= 1
                /\ promises'[p].resolved = 1 => ~promises'[p].polling
                /\ promises'[p].resolved > promises[p].resolved
                   => /\ sheetOp' = "poll"
                      /\ onload = {}
                      /\ loadCount = 0
                      /\ _hasLoaded'
                /\ (promises'[p].resolved = 0 /\ Len(_animations) > 0)
                   => promises'[p].polling
          /\ (sheetOp' = "load" /\ Len(_animations) > 0
                 /\ Len(promises') > Len(promises))
             => LET pr == promises'[Len(promises')]
                IN  IF _hasLoaded
                    THEN /\ loadResult' = "resolved"
                         /\ pr.resolved = 1
                         /\ pr.onProgress
                            => (pr.reported /\ pr.progress = Z(1))
                    ELSE /\ loadResult' = "polling"
                         /\ pr.resolved = 0
                         /\ ~_hasLoaded'
          /\ (_hasLoaded' /\ ~_hasLoaded)
             => \E p \in Promises : promises'[p].resolved > promises[p].resolved
         ]_vars
    /\ \A p \in 1 .. MaxLoads :
           (Len(promises) >= p)
               ~> (Len(promises) >= p /\ promises[p].resolved = 1)

\* load() was called while two images were pending and its promise was
\* resolved by a poll after both had loaded; a second load() was then
\* resolved at once with progress 1.
C32_Witness ==
    /\ Len(promises) = 2
    /\ Len(_animations) > 0
    /\ promises[1].total = 2
    /\ promises[1].resolved = 1
    /\ ~promises[1].polling
    /\ promises[1].progress = Z(1)
    /\ promises[2].total = 0
    /\ promises[2].resolved = 1
    /\ promises[2].reported
    /\ promises[2].progress = Z(1)
    /\ loadResult = "resolved"
    /\ _hasLoaded

(***************************************************************************)
(* C33.  load() on a sheet constructed without data and without a url      *)
(* throws the Error 'url is not set and there for can not be loaded', and  *)
(* on a sheet constructed from a url string it goes on to fetch the url    *)
(* through SpriteSheet.load(url, this).                                    *)
(***************************************************************************)
C33_LoadErrors ==
    sheetOp = "load"
    => /\ dataOrUrl = "undefined"
          => loadResult
                 = "Error: url is not set and there for can not be loaded"
       /\ dataOrUrl = "url" => loadResult = "SpriteSheet.load(url, this)"

\* What load() does on such sheets: _animations is still null, and reading
\* its length throws a TypeError before the url is looked at.
C33_ThrowsTypeError ==
    (sheetOp = "load" /\ dataOrUrl \in {"undefined", "url"})
    => (loadResult = "TypeError" /\ promises = <<>>)

\* The Error for the url is thrown by a sheet initialized from data without
\* animations.
C33_UrlErrorReached ==
    /\ sheetOp = "load"
    /\ dataOrUrl = "data"
    /\ sheetData.animations = <<>>
    /\ loadResult = "Error: url is not set and there for can not be loaded"

\* The cells of the i-th image in row-major order: floor(imgW / width)
\* columns by floor(imgH / height) rows.
Cells(sizes, i, width, height) ==
    LET cols == sizes[i][1] \div width
        rows == sizes[i][2] \div height
    IN  [k \in 1 .. cols * rows |->
            Frame(i, ((k - 1) % cols) * width, ((k - 1) \div cols) * height)]

\* The cells of the first n images, image after image.
RECURSIVE AllCells(_, _, _, _)
AllCells(sizes, n, width, height) ==
    IF n = 0 THEN <<>>
    ELSE AllCells(sizes, n - 1, width, height)
             \o Cells(sizes, n, width, height)

\* The first min(count, number of cells) cells; all of them, up to 100000,
\* when count is omitted.
GridFrameList ==
    LET all == AllCells(imageSizes, Len(imageSizes), sheetData.frames.width,
                        sheetData.frames.height)
        most == IF sheetData.frames.countGiven THEN sheetData.frames.count
                ELSE DefaultMaxFrames
    IN  IF most < Len(all) THEN SubSeq(all, 1, most) ELSE all

\* The frame list is as claimed: absent while an image is pending, and
\* computed once, complete, when none is.
GridAsClaimed ==
    IF onload # {}
    THEN /\ ~_frames.defined
         /\ calculated = 0
         /\ completeEvents = 0
    ELSE /\ sheetError = NoError
         /\ calculated = 1
         /\ _frames = FrameList(GridFrameList)
         /\ getNumFrames = NumFrames(TRUE, Len(GridFrameList))

(***************************************************************************)
(* C34.  Grid frames {width, height, count}: the frame list is computed    *)
(* once, in initialize when no image is pending, else when the last        *)
(* pending image loads and not after the "complete" event; it holds the    *)
(* first min(count, sum of floor(imgW/width) * floor(imgH/height)) cells   *)
(* in row-major order per image, all of them when count is omitted, and    *)
(* getNumFrames() is its length.                                           *)
(***************************************************************************)
C34_GridFrames ==
    sheetBuilt => GridAsClaimed

\* The same on the sheets that have an image and whose count is omitted or
\* positive.
C34_GridFramesOfImages ==
    (sheetBuilt /\ Len(sheetData.images) > 0
        /\ (sheetData.frames.countGiven => sheetData.frames.count > 0))
    => GridAsClaimed

\* Without an image the constructor throws; with count: 0 every cell is cut.
C34_NoImagesThrows ==
    (sheetBuilt /\ Len(sheetData.images) = 0)
    => (sheetError = "TypeError" /\ calculated = 0)

C34_CountZeroCutsAll ==
    /\ sheetBuilt
    /\ onload = {}
    /\ sheetOp = "img.onload"
    /\ sheetData.frames.countGiven
    /\ sheetData.frames.count = 0
    /\ Len(_frames.list) = 5
    /\ getNumFrames = NumFrames(TRUE, 5)

====
